---- MODULE Spec2Model ----
(***************************************************************************)
(* CreatiVision Controller Interface (src/src/main.c): the PS/2 bit        *)
(* decoder (interrupt context), the scan code ring buffer, the scan code   *)
(* interpreter, the two joystick samplers and the MT8816 crosspoint        *)
(* driver (poll context), as one state machine.                            *)
(*                                                                         *)
(* Granularity: one step per invocation of PS2_Interrupt (it cannot be     *)
(* pre-empted), one step per port write of MT8816_Switch, one step per     *)
(* statement of the atomic block of get_PS2_ScanCode.  The interrupt may   *)
(* fire between any two poll-context steps while interrupts are enabled.   *)
(***************************************************************************)
EXTENDS Integers, Sequences, FiniteSets, TLC

-----------------------------------------------------------------------------
(* uint8_t bit operations                                                  *)

RECURSIVE BitAnd(_, _)
BitAnd(x, y) ==
    IF x = 0 \/ y = 0 THEN 0
    ELSE (x % 2) * (y % 2) + 2 * BitAnd(x \div 2, y \div 2)

RECURSIVE BitOr(_, _)
BitOr(x, y) ==
    IF x = 0 THEN y
    ELSE IF y = 0 THEN x
    ELSE (IF x % 2 = 1 \/ y % 2 = 1 THEN 1 ELSE 0) + 2 * BitOr(x \div 2, y \div 2)

\* x & ~m on 8 bits
BitClr(x, m) == x - BitAnd(x, m)

-----------------------------------------------------------------------------
(* Program constants                                                       *)

PS2_ScanCodeBuffer_Size == 254

\* PIN1_bm, PIN6_bm, PIN7_bm of the AVR port
PS2_Data_bm == 2
MT_Strobe_bm == 64
MT_Data_bm == 128

NO_SWITCH_ACTION == 128

PIA_PA0 == 0
PIA_PA1 == 16
PIA_PA2 == 40
PIA_PA3 == 56

PIA_PB0 == 0
PIA_PB1 == 1
PIA_PB2 == 2
PIA_PB3 == 3
PIA_PB4 == 4
PIA_PB5 == 5
PIA_PB6 == 6
PIA_PB7 == 7

Switch_1_a == BitOr(PIA_PA0, PIA_PB3)
Switch_1_b == BitOr(PIA_PA0, PIA_PB2)
Switch_2_a == BitOr(PIA_PA1, PIA_PB5)
Switch_2_b == BitOr(PIA_PA1, PIA_PB4)
Switch_3_a == BitOr(PIA_PA1, PIA_PB5)
Switch_3_b == BitOr(PIA_PA1, PIA_PB6)
Switch_4_a == BitOr(PIA_PA1, PIA_PB5)
Switch_4_b == BitOr(PIA_PA1, PIA_PB3)
Switch_5_a == BitOr(PIA_PA1, PIA_PB6)
Switch_5_b == BitOr(PIA_PA1, PIA_PB3)
Switch_6_a == BitOr(PIA_PA1, PIA_PB6)
Switch_6_b == BitOr(PIA_PA1, PIA_PB4)
Switch_CNTL == BitOr(PIA_PA0, PIA_PB7)
Switch_Q_a == BitOr(PIA_PA1, PIA_PB4)
Switch_Q_b == BitOr(PIA_PA1, PIA_PB3)
Switch_W_a == BitOr(PIA_PA1, PIA_PB3)
Switch_W_b == BitOr(PIA_PA1, PIA_PB2)
Switch_E_a == BitOr(PIA_PA1, PIA_PB4)
Switch_E_b == BitOr(PIA_PA1, PIA_PB2)
Switch_R_a == BitOr(PIA_PA1, PIA_PB5)
Switch_R_b == BitOr(PIA_PA1, PIA_PB2)
Switch_T_a == BitOr(PIA_PA1, PIA_PB6)
Switch_T_b == BitOr(PIA_PA1, PIA_PB2)
Switch_LEFT_a == BitOr(PIA_PA1, PIA_PB3)
Switch_LEFT_b == BitOr(PIA_PA1, PIA_PB0)
Switch_A_a == BitOr(PIA_PA1, PIA_PB4)
Switch_A_b == BitOr(PIA_PA1, PIA_PB0)
Switch_S_a == BitOr(PIA_PA1, PIA_PB5)
Switch_S_b == BitOr(PIA_PA1, PIA_PB0)
Switch_D_a == BitOr(PIA_PA1, PIA_PB6)
Switch_D_b == BitOr(PIA_PA1, PIA_PB0)
Switch_F_a == BitOr(PIA_PA1, PIA_PB1)
Switch_F_b == BitOr(PIA_PA1, PIA_PB0)
Switch_G_a == BitOr(PIA_PA1, PIA_PB2)
Switch_G_b == BitOr(PIA_PA1, PIA_PB0)
Switch_SHIFT == BitOr(PIA_PA1, PIA_PB7)
Switch_Z_a == BitOr(PIA_PA1, PIA_PB3)
Switch_Z_b == BitOr(PIA_PA1, PIA_PB1)
Switch_X_a == BitOr(PIA_PA1, PIA_PB4)
Switch_X_b == BitOr(PIA_PA1, PIA_PB1)
Switch_C_a == BitOr(PIA_PA1, PIA_PB5)
Switch_C_b == BitOr(PIA_PA1, PIA_PB1)
Switch_V_a == BitOr(PIA_PA1, PIA_PB6)
Switch_V_b == BitOr(PIA_PA1, PIA_PB1)
Switch_B_a == BitOr(PIA_PA1, PIA_PB2)
Switch_B_b == BitOr(PIA_PA1, PIA_PB1)
Switch_7_a == BitOr(PIA_PA3, PIA_PB1)
Switch_7_b == BitOr(PIA_PA3, PIA_PB2)
Switch_8_a == BitOr(PIA_PA3, PIA_PB6)
Switch_8_b == BitOr(PIA_PA3, PIA_PB1)
Switch_9_a == BitOr(PIA_PA3, PIA_PB5)
Switch_9_b == BitOr(PIA_PA3, PIA_PB1)
Switch_0_a == BitOr(PIA_PA3, PIA_PB4)
Switch_0_b == BitOr(PIA_PA3, PIA_PB1)
Switch_COLON_a == BitOr(PIA_PA3, PIA_PB3)
Switch_COLON_b == BitOr(PIA_PA3, PIA_PB1)
Switch_MINUS == BitOr(PIA_PA3, PIA_PB7)
Switch_Y_a == BitOr(PIA_PA3, PIA_PB0)
Switch_Y_b == BitOr(PIA_PA3, PIA_PB2)
Switch_U_a == BitOr(PIA_PA3, PIA_PB0)
Switch_U_b == BitOr(PIA_PA3, PIA_PB1)
Switch_I_a == BitOr(PIA_PA3, PIA_PB6)
Switch_I_b == BitOr(PIA_PA3, PIA_PB0)
Switch_O_a == BitOr(PIA_PA3, PIA_PB5)
Switch_O_b == BitOr(PIA_PA3, PIA_PB0)
Switch_P_a == BitOr(PIA_PA3, PIA_PB4)
Switch_P_b == BitOr(PIA_PA3, PIA_PB0)
Switch_RETN_a == BitOr(PIA_PA3, PIA_PB3)
Switch_RETN_b == BitOr(PIA_PA3, PIA_PB0)
Switch_H_a == BitOr(PIA_PA3, PIA_PB6)
Switch_H_b == BitOr(PIA_PA3, PIA_PB2)
Switch_J_a == BitOr(PIA_PA3, PIA_PB5)
Switch_J_b == BitOr(PIA_PA3, PIA_PB2)
Switch_K_a == BitOr(PIA_PA3, PIA_PB4)
Switch_K_b == BitOr(PIA_PA3, PIA_PB2)
Switch_L_a == BitOr(PIA_PA3, PIA_PB3)
Switch_L_b == BitOr(PIA_PA3, PIA_PB2)
Switch_SEMICOLON_a == BitOr(PIA_PA3, PIA_PB4)
Switch_SEMICOLON_b == BitOr(PIA_PA3, PIA_PB3)
Switch_N_a == BitOr(PIA_PA3, PIA_PB6)
Switch_N_b == BitOr(PIA_PA3, PIA_PB4)
Switch_M_a == BitOr(PIA_PA3, PIA_PB6)
Switch_M_b == BitOr(PIA_PA3, PIA_PB3)
Switch_COMMA_a == BitOr(PIA_PA3, PIA_PB5)
Switch_COMMA_b == BitOr(PIA_PA3, PIA_PB3)
Switch_PERIOD_a == BitOr(PIA_PA3, PIA_PB6)
Switch_PERIOD_b == BitOr(PIA_PA3, PIA_PB5)
Switch_FORWARDSLASH_a == BitOr(PIA_PA3, PIA_PB5)
Switch_FORWARDSLASH_b == BitOr(PIA_PA3, PIA_PB4)
Switch_RIGHT == BitOr(PIA_PA2, PIA_PB7)
Switch_SPACE_a == BitOr(PIA_PA2, PIA_PB3)
Switch_SPACE_b == BitOr(PIA_PA2, PIA_PB2)
Switch_JoyL_Up == BitOr(PIA_PA0, PIA_PB3)
Switch_JoyL_Down == BitOr(PIA_PA0, PIA_PB1)
Switch_JoyL_Left == BitOr(PIA_PA0, PIA_PB5)
Switch_JoyL_Right == BitOr(PIA_PA0, PIA_PB2)
Switch_JoyL_UpLeft_Extra == BitOr(PIA_PA0, PIA_PB4)
Switch_JoyL_UpRightDownLeft_Extra == BitOr(PIA_PA0, PIA_PB6)
Switch_JoyL_DownRight_Extra == BitOr(PIA_PA0, PIA_PB0)
Switch_JoyL_Button1 == BitOr(PIA_PA0, PIA_PB7)
\* Variant: button 2 of the left controller wired to row PIA_PA3
Switch_JoyL_Button2_OnPA3 == BitOr(PIA_PA3, PIA_PB7)

Switch_JoyL_Button2 == BitOr(PIA_PA1, PIA_PB7)
Switch_JoyR_Up == BitOr(PIA_PA2, PIA_PB3)
Switch_JoyR_Down == BitOr(PIA_PA2, PIA_PB1)
Switch_JoyR_Left == BitOr(PIA_PA2, PIA_PB5)
Switch_JoyR_Right == BitOr(PIA_PA2, PIA_PB2)
Switch_JoyR_UpLeft_Extra == BitOr(PIA_PA2, PIA_PB4)
Switch_JoyR_UpRightDownLeft_Extra == BitOr(PIA_PA2, PIA_PB6)
Switch_JoyR_DownRight_Extra == BitOr(PIA_PA2, PIA_PB0)
Switch_JoyR_Button1 == BitOr(PIA_PA2, PIA_PB7)
Switch_JoyR_Button2 == BitOr(PIA_PA3, PIA_PB7)

-----------------------------------------------------------------------------
(* MT8816 crosspoint driver                                                *)

\* One call of MT8816_Switch(switchState, switchAddress)
SwitchCall(switchState, switchAddress) == [on |-> switchState, addr |-> switchAddress]

\* Variant: the X nibble written as it is, without the truth-table correction
MT8816_Address_NoRemap(switchAddress) == BitAnd(switchAddress, 63)

\* The value MT8816_Switch first writes to PORTA: the X nibble with the
\* truth-table correction, combined with the Y field.
MT8816_Address(switchAddress) ==
    LET switchAddressX == BitAnd(switchAddress, 15)
        switchAddressY == BitAnd(switchAddress, 48)
        X == IF switchAddressX \in 6..11 THEN switchAddressX + 2
             ELSE IF switchAddressX \in 12..13 THEN switchAddressX - 6
             ELSE switchAddressX
    IN  BitOr(X, switchAddressY)

\* The switch array seen from PORTA (pins 0-5 address, pin 6 strobe, pin 7
\* data): while the strobe is high the addressed crosspoint takes the level
\* of the data line.  m is the set of closed crosspoints.
MT8816_Latch(m, port) ==
    IF BitAnd(port, MT_Strobe_bm) # 0
    THEN IF BitAnd(port, MT_Data_bm) # 0
         THEN m \cup {BitAnd(port, 63)}
         ELSE m \ {BitAnd(port, 63)}
    ELSE m

\* Variant: the Y counter shifted by 3 instead of 4
MT8816_Reset_Address_Shift3(l1, l2) == BitOr(l1 * 8, l2)

\* The address MT8816_Reset passes in iteration (lp1, lp2)
MT8816_Reset_Address(l1, l2) == BitOr(l1 * 16, l2)

-----------------------------------------------------------------------------
(* Joystick samplers                                                       *)

readJoystick_Left(portD) == BitAnd(255 - portD, 252) \div 4

readJoystick_Right(portC, portD) ==
    BitOr(BitAnd(255 - portC, 15), (BitAnd(255 - portD, 3) * 16) % 256)

\* Variant: the Up Right case closes the UpLeft extra switch
process_Joystick_Left_Calls_WrongExtra(joyLeft) ==
    << SwitchCall(BitAnd(joyLeft, 16) # 0, Switch_JoyL_Button1),
       SwitchCall(BitAnd(joyLeft, 32) # 0, Switch_JoyL_Button2) >> \o
    CASE
       BitAnd(joyLeft, 15) = 1 ->
          << SwitchCall(FALSE, Switch_JoyL_Down),
             SwitchCall(FALSE, Switch_JoyL_Left),
             SwitchCall(FALSE, Switch_JoyL_Right),
             SwitchCall(FALSE, Switch_JoyL_UpLeft_Extra),
             SwitchCall(FALSE, Switch_JoyL_UpRightDownLeft_Extra),
             SwitchCall(FALSE, Switch_JoyL_DownRight_Extra),
             SwitchCall(TRUE, Switch_JoyL_Up) >>
    [] BitAnd(joyLeft, 15) = 2 ->
          << SwitchCall(FALSE, Switch_JoyL_Up),
             SwitchCall(FALSE, Switch_JoyL_Left),
             SwitchCall(FALSE, Switch_JoyL_Right),
             SwitchCall(FALSE, Switch_JoyL_UpLeft_Extra),
             SwitchCall(FALSE, Switch_JoyL_UpRightDownLeft_Extra),
             SwitchCall(FALSE, Switch_JoyL_DownRight_Extra),
             SwitchCall(TRUE, Switch_JoyL_Down) >>
    [] BitAnd(joyLeft, 15) = 4 ->
          << SwitchCall(FALSE, Switch_JoyL_Up),
             SwitchCall(FALSE, Switch_JoyL_Down),
             SwitchCall(FALSE, Switch_JoyL_Right),
             SwitchCall(FALSE, Switch_JoyL_UpLeft_Extra),
             SwitchCall(FALSE, Switch_JoyL_UpRightDownLeft_Extra),
             SwitchCall(FALSE, Switch_JoyL_DownRight_Extra),
             SwitchCall(TRUE, Switch_JoyL_Left) >>
    [] BitAnd(joyLeft, 15) = 8 ->
          << SwitchCall(FALSE, Switch_JoyL_Up),
             SwitchCall(FALSE, Switch_JoyL_Down),
             SwitchCall(FALSE, Switch_JoyL_Left),
             SwitchCall(FALSE, Switch_JoyL_UpLeft_Extra),
             SwitchCall(FALSE, Switch_JoyL_UpRightDownLeft_Extra),
             SwitchCall(FALSE, Switch_JoyL_DownRight_Extra),
             SwitchCall(TRUE, Switch_JoyL_Right) >>
    [] BitAnd(joyLeft, 15) = 5 ->
          << SwitchCall(FALSE, Switch_JoyL_Down),
             SwitchCall(FALSE, Switch_JoyL_Right),
             SwitchCall(FALSE, Switch_JoyL_UpRightDownLeft_Extra),
             SwitchCall(FALSE, Switch_JoyL_DownRight_Extra),
             SwitchCall(TRUE, Switch_JoyL_UpLeft_Extra),
             SwitchCall(TRUE, Switch_JoyL_Up),
             SwitchCall(TRUE, Switch_JoyL_Left) >>
    [] BitAnd(joyLeft, 15) = 9 ->
          << SwitchCall(FALSE, Switch_JoyL_Down),
             SwitchCall(FALSE, Switch_JoyL_Left),
             SwitchCall(FALSE, Switch_JoyL_UpRightDownLeft_Extra),
             SwitchCall(FALSE, Switch_JoyL_DownRight_Extra),
             SwitchCall(TRUE, Switch_JoyL_UpLeft_Extra),
             SwitchCall(TRUE, Switch_JoyL_Up),
             SwitchCall(TRUE, Switch_JoyL_Right) >>
    [] BitAnd(joyLeft, 15) = 10 ->
          << SwitchCall(FALSE, Switch_JoyL_Up),
             SwitchCall(FALSE, Switch_JoyL_Left),
             SwitchCall(FALSE, Switch_JoyL_UpLeft_Extra),
             SwitchCall(FALSE, Switch_JoyL_UpRightDownLeft_Extra),
             SwitchCall(TRUE, Switch_JoyL_DownRight_Extra),
             SwitchCall(TRUE, Switch_JoyL_Down),
             SwitchCall(TRUE, Switch_JoyL_Right) >>
    [] BitAnd(joyLeft, 15) = 6 ->
          << SwitchCall(FALSE, Switch_JoyL_Up),
             SwitchCall(FALSE, Switch_JoyL_Right),
             SwitchCall(FALSE, Switch_JoyL_UpLeft_Extra),
             SwitchCall(FALSE, Switch_JoyL_DownRight_Extra),
             SwitchCall(TRUE, Switch_JoyL_UpRightDownLeft_Extra),
             SwitchCall(TRUE, Switch_JoyL_Down),
             SwitchCall(TRUE, Switch_JoyL_Left) >>
    [] OTHER ->
          << SwitchCall(FALSE, Switch_JoyL_Up),
             SwitchCall(FALSE, Switch_JoyL_Down),
             SwitchCall(FALSE, Switch_JoyL_Left),
             SwitchCall(FALSE, Switch_JoyL_Right),
             SwitchCall(FALSE, Switch_JoyL_UpLeft_Extra),
             SwitchCall(FALSE, Switch_JoyL_UpRightDownLeft_Extra),
             SwitchCall(FALSE, Switch_JoyL_DownRight_Extra) >>

\* Variant: the Up case does not open Down
process_Joystick_Left_Calls_DownKept(joyLeft) ==
    << SwitchCall(BitAnd(joyLeft, 16) # 0, Switch_JoyL_Button1),
       SwitchCall(BitAnd(joyLeft, 32) # 0, Switch_JoyL_Button2) >> \o
    CASE
       BitAnd(joyLeft, 15) = 1 ->
          << SwitchCall(FALSE, Switch_JoyL_Left),
             SwitchCall(FALSE, Switch_JoyL_Right),
             SwitchCall(FALSE, Switch_JoyL_UpLeft_Extra),
             SwitchCall(FALSE, Switch_JoyL_UpRightDownLeft_Extra),
             SwitchCall(FALSE, Switch_JoyL_DownRight_Extra),
             SwitchCall(TRUE, Switch_JoyL_Up) >>
    [] BitAnd(joyLeft, 15) = 2 ->
          << SwitchCall(FALSE, Switch_JoyL_Up),
             SwitchCall(FALSE, Switch_JoyL_Left),
             SwitchCall(FALSE, Switch_JoyL_Right),
             SwitchCall(FALSE, Switch_JoyL_UpLeft_Extra),
             SwitchCall(FALSE, Switch_JoyL_UpRightDownLeft_Extra),
             SwitchCall(FALSE, Switch_JoyL_DownRight_Extra),
             SwitchCall(TRUE, Switch_JoyL_Down) >>
    [] BitAnd(joyLeft, 15) = 4 ->
          << SwitchCall(FALSE, Switch_JoyL_Up),
             SwitchCall(FALSE, Switch_JoyL_Down),
             SwitchCall(FALSE, Switch_JoyL_Right),
             SwitchCall(FALSE, Switch_JoyL_UpLeft_Extra),
             SwitchCall(FALSE, Switch_JoyL_UpRightDownLeft_Extra),
             SwitchCall(FALSE, Switch_JoyL_DownRight_Extra),
             SwitchCall(TRUE, Switch_JoyL_Left) >>
    [] BitAnd(joyLeft, 15) = 8 ->
          << SwitchCall(FALSE, Switch_JoyL_Up),
             SwitchCall(FALSE, Switch_JoyL_Down),
             SwitchCall(FALSE, Switch_JoyL_Left),
             SwitchCall(FALSE, Switch_JoyL_UpLeft_Extra),
             SwitchCall(FALSE, Switch_JoyL_UpRightDownLeft_Extra),
             SwitchCall(FALSE, Switch_JoyL_DownRight_Extra),
             SwitchCall(TRUE, Switch_JoyL_Right) >>
    [] BitAnd(joyLeft, 15) = 5 ->
          << SwitchCall(FALSE, Switch_JoyL_Down),
             SwitchCall(FALSE, Switch_JoyL_Right),
             SwitchCall(FALSE, Switch_JoyL_UpRightDownLeft_Extra),
             SwitchCall(FALSE, Switch_JoyL_DownRight_Extra),
             SwitchCall(TRUE, Switch_JoyL_UpLeft_Extra),
             SwitchCall(TRUE, Switch_JoyL_Up),
             SwitchCall(TRUE, Switch_JoyL_Left) >>
    [] BitAnd(joyLeft, 15) = 9 ->
          << SwitchCall(FALSE, Switch_JoyL_Down),
             SwitchCall(FALSE, Switch_JoyL_Left),
             SwitchCall(FALSE, Switch_JoyL_UpLeft_Extra),
             SwitchCall(FALSE, Switch_JoyL_DownRight_Extra),
             SwitchCall(TRUE, Switch_JoyL_UpRightDownLeft_Extra),
             SwitchCall(TRUE, Switch_JoyL_Up),
             SwitchCall(TRUE, Switch_JoyL_Right) >>
    [] BitAnd(joyLeft, 15) = 10 ->
          << SwitchCall(FALSE, Switch_JoyL_Up),
             SwitchCall(FALSE, Switch_JoyL_Left),
             SwitchCall(FALSE, Switch_JoyL_UpLeft_Extra),
             SwitchCall(FALSE, Switch_JoyL_UpRightDownLeft_Extra),
             SwitchCall(TRUE, Switch_JoyL_DownRight_Extra),
             SwitchCall(TRUE, Switch_JoyL_Down),
             SwitchCall(TRUE, Switch_JoyL_Right) >>
    [] BitAnd(joyLeft, 15) = 6 ->
          << SwitchCall(FALSE, Switch_JoyL_Up),
             SwitchCall(FALSE, Switch_JoyL_Right),
             SwitchCall(FALSE, Switch_JoyL_UpLeft_Extra),
             SwitchCall(FALSE, Switch_JoyL_DownRight_Extra),
             SwitchCall(TRUE, Switch_JoyL_UpRightDownLeft_Extra),
             SwitchCall(TRUE, Switch_JoyL_Down),
             SwitchCall(TRUE, Switch_JoyL_Left) >>
    [] OTHER ->
          << SwitchCall(FALSE, Switch_JoyL_Up),
             SwitchCall(FALSE, Switch_JoyL_Down),
             SwitchCall(FALSE, Switch_JoyL_Left),
             SwitchCall(FALSE, Switch_JoyL_Right),
             SwitchCall(FALSE, Switch_JoyL_UpLeft_Extra),
             SwitchCall(FALSE, Switch_JoyL_UpRightDownLeft_Extra),
             SwitchCall(FALSE, Switch_JoyL_DownRight_Extra) >>

\* The calls of the change branch of process_Joystick_Left, in order
process_Joystick_Left_Calls(joyLeft) ==
    << SwitchCall(BitAnd(joyLeft, 16) # 0, Switch_JoyL_Button1),
       SwitchCall(BitAnd(joyLeft, 32) # 0, Switch_JoyL_Button2) >> \o
    CASE
       BitAnd(joyLeft, 15) = 1 ->
          << SwitchCall(FALSE, Switch_JoyL_Down),
             SwitchCall(FALSE, Switch_JoyL_Left),
             SwitchCall(FALSE, Switch_JoyL_Right),
             SwitchCall(FALSE, Switch_JoyL_UpLeft_Extra),
             SwitchCall(FALSE, Switch_JoyL_UpRightDownLeft_Extra),
             SwitchCall(FALSE, Switch_JoyL_DownRight_Extra),
             SwitchCall(TRUE, Switch_JoyL_Up) >>
    [] BitAnd(joyLeft, 15) = 2 ->
          << SwitchCall(FALSE, Switch_JoyL_Up),
             SwitchCall(FALSE, Switch_JoyL_Left),
             SwitchCall(FALSE, Switch_JoyL_Right),
             SwitchCall(FALSE, Switch_JoyL_UpLeft_Extra),
             SwitchCall(FALSE, Switch_JoyL_UpRightDownLeft_Extra),
             SwitchCall(FALSE, Switch_JoyL_DownRight_Extra),
             SwitchCall(TRUE, Switch_JoyL_Down) >>
    [] BitAnd(joyLeft, 15) = 4 ->
          << SwitchCall(FALSE, Switch_JoyL_Up),
             SwitchCall(FALSE, Switch_JoyL_Down),
             SwitchCall(FALSE, Switch_JoyL_Right),
             SwitchCall(FALSE, Switch_JoyL_UpLeft_Extra),
             SwitchCall(FALSE, Switch_JoyL_UpRightDownLeft_Extra),
             SwitchCall(FALSE, Switch_JoyL_DownRight_Extra),
             SwitchCall(TRUE, Switch_JoyL_Left) >>
    [] BitAnd(joyLeft, 15) = 8 ->
          << SwitchCall(FALSE, Switch_JoyL_Up),
             SwitchCall(FALSE, Switch_JoyL_Down),
             SwitchCall(FALSE, Switch_JoyL_Left),
             SwitchCall(FALSE, Switch_JoyL_UpLeft_Extra),
             SwitchCall(FALSE, Switch_JoyL_UpRightDownLeft_Extra),
             SwitchCall(FALSE, Switch_JoyL_DownRight_Extra),
             SwitchCall(TRUE, Switch_JoyL_Right) >>
    [] BitAnd(joyLeft, 15) = 5 ->
          << SwitchCall(FALSE, Switch_JoyL_Down),
             SwitchCall(FALSE, Switch_JoyL_Right),
             SwitchCall(FALSE, Switch_JoyL_UpRightDownLeft_Extra),
             SwitchCall(FALSE, Switch_JoyL_DownRight_Extra),
             SwitchCall(TRUE, Switch_JoyL_UpLeft_Extra),
             SwitchCall(TRUE, Switch_JoyL_Up),
             SwitchCall(TRUE, Switch_JoyL_Left) >>
    [] BitAnd(joyLeft, 15) = 9 ->
          << SwitchCall(FALSE, Switch_JoyL_Down),
             SwitchCall(FALSE, Switch_JoyL_Left),
             SwitchCall(FALSE, Switch_JoyL_UpLeft_Extra),
             SwitchCall(FALSE, Switch_JoyL_DownRight_Extra),
             SwitchCall(TRUE, Switch_JoyL_UpRightDownLeft_Extra),
             SwitchCall(TRUE, Switch_JoyL_Up),
             SwitchCall(TRUE, Switch_JoyL_Right) >>
    [] BitAnd(joyLeft, 15) = 10 ->
          << SwitchCall(FALSE, Switch_JoyL_Up),
             SwitchCall(FALSE, Switch_JoyL_Left),
             SwitchCall(FALSE, Switch_JoyL_UpLeft_Extra),
             SwitchCall(FALSE, Switch_JoyL_UpRightDownLeft_Extra),
             SwitchCall(TRUE, Switch_JoyL_DownRight_Extra),
             SwitchCall(TRUE, Switch_JoyL_Down),
             SwitchCall(TRUE, Switch_JoyL_Right) >>
    [] BitAnd(joyLeft, 15) = 6 ->
          << SwitchCall(FALSE, Switch_JoyL_Up),
             SwitchCall(FALSE, Switch_JoyL_Right),
             SwitchCall(FALSE, Switch_JoyL_UpLeft_Extra),
             SwitchCall(FALSE, Switch_JoyL_DownRight_Extra),
             SwitchCall(TRUE, Switch_JoyL_UpRightDownLeft_Extra),
             SwitchCall(TRUE, Switch_JoyL_Down),
             SwitchCall(TRUE, Switch_JoyL_Left) >>
    [] OTHER ->
          << SwitchCall(FALSE, Switch_JoyL_Up),
             SwitchCall(FALSE, Switch_JoyL_Down),
             SwitchCall(FALSE, Switch_JoyL_Left),
             SwitchCall(FALSE, Switch_JoyL_Right),
             SwitchCall(FALSE, Switch_JoyL_UpLeft_Extra),
             SwitchCall(FALSE, Switch_JoyL_UpRightDownLeft_Extra),
             SwitchCall(FALSE, Switch_JoyL_DownRight_Extra) >>

\* Variant: the Down case closes Down before it opens the others
process_Joystick_Right_Calls_CloseFirst(joyRight) ==
    << SwitchCall(BitAnd(joyRight, 16) # 0, Switch_JoyR_Button1),
       SwitchCall(BitAnd(joyRight, 32) # 0, Switch_JoyR_Button2) >> \o
    CASE
       BitAnd(joyRight, 15) = 1 ->
          << SwitchCall(FALSE, Switch_JoyR_Down),
             SwitchCall(FALSE, Switch_JoyR_Left),
             SwitchCall(FALSE, Switch_JoyR_Right),
             SwitchCall(FALSE, Switch_JoyR_UpLeft_Extra),
             SwitchCall(FALSE, Switch_JoyR_UpRightDownLeft_Extra),
             SwitchCall(FALSE, Switch_JoyR_DownRight_Extra),
             SwitchCall(TRUE, Switch_JoyR_Up) >>
    [] BitAnd(joyRight, 15) = 2 ->
          << SwitchCall(TRUE, Switch_JoyR_Down),
             SwitchCall(FALSE, Switch_JoyR_Up),
             SwitchCall(FALSE, Switch_JoyR_Left),
             SwitchCall(FALSE, Switch_JoyR_Right),
             SwitchCall(FALSE, Switch_JoyR_UpLeft_Extra),
             SwitchCall(FALSE, Switch_JoyR_UpRightDownLeft_Extra),
             SwitchCall(FALSE, Switch_JoyR_DownRight_Extra) >>
    [] BitAnd(joyRight, 15) = 4 ->
          << SwitchCall(FALSE, Switch_JoyR_Up),
             SwitchCall(FALSE, Switch_JoyR_Down),
             SwitchCall(FALSE, Switch_JoyR_Right),
             SwitchCall(FALSE, Switch_JoyR_UpLeft_Extra),
             SwitchCall(FALSE, Switch_JoyR_UpRightDownLeft_Extra),
             SwitchCall(FALSE, Switch_JoyR_DownRight_Extra),
             SwitchCall(TRUE, Switch_JoyR_Left) >>
    [] BitAnd(joyRight, 15) = 8 ->
          << SwitchCall(FALSE, Switch_JoyR_Up),
             SwitchCall(FALSE, Switch_JoyR_Down),
             SwitchCall(FALSE, Switch_JoyR_Left),
             SwitchCall(FALSE, Switch_JoyR_UpLeft_Extra),
             SwitchCall(FALSE, Switch_JoyR_UpRightDownLeft_Extra),
             SwitchCall(FALSE, Switch_JoyR_DownRight_Extra),
             SwitchCall(TRUE, Switch_JoyR_Right) >>
    [] BitAnd(joyRight, 15) = 5 ->
          << SwitchCall(FALSE, Switch_JoyR_Down),
             SwitchCall(FALSE, Switch_JoyR_Right),
             SwitchCall(FALSE, Switch_JoyR_UpRightDownLeft_Extra),
             SwitchCall(FALSE, Switch_JoyR_DownRight_Extra),
             SwitchCall(TRUE, Switch_JoyR_UpLeft_Extra),
             SwitchCall(TRUE, Switch_JoyR_Up),
             SwitchCall(TRUE, Switch_JoyR_Left) >>
    [] BitAnd(joyRight, 15) = 9 ->
          << SwitchCall(FALSE, Switch_JoyR_Down),
             SwitchCall(FALSE, Switch_JoyR_Left),
             SwitchCall(FALSE, Switch_JoyR_UpLeft_Extra),
             SwitchCall(FALSE, Switch_JoyR_DownRight_Extra),
             SwitchCall(TRUE, Switch_JoyR_UpRightDownLeft_Extra),
             SwitchCall(TRUE, Switch_JoyR_Up),
             SwitchCall(TRUE, Switch_JoyR_Right) >>
    [] BitAnd(joyRight, 15) = 10 ->
          << SwitchCall(FALSE, Switch_JoyR_Up),
             SwitchCall(FALSE, Switch_JoyR_Left),
             SwitchCall(FALSE, Switch_JoyR_UpLeft_Extra),
             SwitchCall(FALSE, Switch_JoyR_UpRightDownLeft_Extra),
             SwitchCall(TRUE, Switch_JoyR_DownRight_Extra),
             SwitchCall(TRUE, Switch_JoyR_Down),
             SwitchCall(TRUE, Switch_JoyR_Right) >>
    [] BitAnd(joyRight, 15) = 6 ->
          << SwitchCall(FALSE, Switch_JoyR_Up),
             SwitchCall(FALSE, Switch_JoyR_Right),
             SwitchCall(FALSE, Switch_JoyR_UpLeft_Extra),
             SwitchCall(FALSE, Switch_JoyR_DownRight_Extra),
             SwitchCall(TRUE, Switch_JoyR_UpRightDownLeft_Extra),
             SwitchCall(TRUE, Switch_JoyR_Down),
             SwitchCall(TRUE, Switch_JoyR_Left) >>
    [] OTHER ->
          << SwitchCall(FALSE, Switch_JoyR_Up),
             SwitchCall(FALSE, Switch_JoyR_Down),
             SwitchCall(FALSE, Switch_JoyR_Left),
             SwitchCall(FALSE, Switch_JoyR_Right),
             SwitchCall(FALSE, Switch_JoyR_UpLeft_Extra),
             SwitchCall(FALSE, Switch_JoyR_UpRightDownLeft_Extra),
             SwitchCall(FALSE, Switch_JoyR_DownRight_Extra) >>

\* Variant: Button2 driven from the Button1 bit
process_Joystick_Right_Calls_Button2FromBit4(joyRight) ==
    << SwitchCall(BitAnd(joyRight, 16) # 0, Switch_JoyR_Button1),
       SwitchCall(BitAnd(joyRight, 16) # 0, Switch_JoyR_Button2) >> \o
    CASE
       BitAnd(joyRight, 15) = 1 ->
          << SwitchCall(FALSE, Switch_JoyR_Down),
             SwitchCall(FALSE, Switch_JoyR_Left),
             SwitchCall(FALSE, Switch_JoyR_Right),
             SwitchCall(FALSE, Switch_JoyR_UpLeft_Extra),
             SwitchCall(FALSE, Switch_JoyR_UpRightDownLeft_Extra),
             SwitchCall(FALSE, Switch_JoyR_DownRight_Extra),
             SwitchCall(TRUE, Switch_JoyR_Up) >>
    [] BitAnd(joyRight, 15) = 2 ->
          << SwitchCall(FALSE, Switch_JoyR_Up),
             SwitchCall(FALSE, Switch_JoyR_Left),
             SwitchCall(FALSE, Switch_JoyR_Right),
             SwitchCall(FALSE, Switch_JoyR_UpLeft_Extra),
             SwitchCall(FALSE, Switch_JoyR_UpRightDownLeft_Extra),
             SwitchCall(FALSE, Switch_JoyR_DownRight_Extra),
             SwitchCall(TRUE, Switch_JoyR_Down) >>
    [] BitAnd(joyRight, 15) = 4 ->
          << SwitchCall(FALSE, Switch_JoyR_Up),
             SwitchCall(FALSE, Switch_JoyR_Down),
             SwitchCall(FALSE, Switch_JoyR_Right),
             SwitchCall(FALSE, Switch_JoyR_UpLeft_Extra),
             SwitchCall(FALSE, Switch_JoyR_UpRightDownLeft_Extra),
             SwitchCall(FALSE, Switch_JoyR_DownRight_Extra),
             SwitchCall(TRUE, Switch_JoyR_Left) >>
    [] BitAnd(joyRight, 15) = 8 ->
          << SwitchCall(FALSE, Switch_JoyR_Up),
             SwitchCall(FALSE, Switch_JoyR_Down),
             SwitchCall(FALSE, Switch_JoyR_Left),
             SwitchCall(FALSE, Switch_JoyR_UpLeft_Extra),
             SwitchCall(FALSE, Switch_JoyR_UpRightDownLeft_Extra),
             SwitchCall(FALSE, Switch_JoyR_DownRight_Extra),
             SwitchCall(TRUE, Switch_JoyR_Right) >>
    [] BitAnd(joyRight, 15) = 5 ->
          << SwitchCall(FALSE, Switch_JoyR_Down),
             SwitchCall(FALSE, Switch_JoyR_Right),
             SwitchCall(FALSE, Switch_JoyR_UpRightDownLeft_Extra),
             SwitchCall(FALSE, Switch_JoyR_DownRight_Extra),
             SwitchCall(TRUE, Switch_JoyR_UpLeft_Extra),
             SwitchCall(TRUE, Switch_JoyR_Up),
             SwitchCall(TRUE, Switch_JoyR_Left) >>
    [] BitAnd(joyRight, 15) = 9 ->
          << SwitchCall(FALSE, Switch_JoyR_Down),
             SwitchCall(FALSE, Switch_JoyR_Left),
             SwitchCall(FALSE, Switch_JoyR_UpLeft_Extra),
             SwitchCall(FALSE, Switch_JoyR_DownRight_Extra),
             SwitchCall(TRUE, Switch_JoyR_UpRightDownLeft_Extra),
             SwitchCall(TRUE, Switch_JoyR_Up),
             SwitchCall(TRUE, Switch_JoyR_Right) >>
    [] BitAnd(joyRight, 15) = 10 ->
          << SwitchCall(FALSE, Switch_JoyR_Up),
             SwitchCall(FALSE, Switch_JoyR_Left),
             SwitchCall(FALSE, Switch_JoyR_UpLeft_Extra),
             SwitchCall(FALSE, Switch_JoyR_UpRightDownLeft_Extra),
             SwitchCall(TRUE, Switch_JoyR_DownRight_Extra),
             SwitchCall(TRUE, Switch_JoyR_Down),
             SwitchCall(TRUE, Switch_JoyR_Right) >>
    [] BitAnd(joyRight, 15) = 6 ->
          << SwitchCall(FALSE, Switch_JoyR_Up),
             SwitchCall(FALSE, Switch_JoyR_Right),
             SwitchCall(FALSE, Switch_JoyR_UpLeft_Extra),
             SwitchCall(FALSE, Switch_JoyR_DownRight_Extra),
             SwitchCall(TRUE, Switch_JoyR_UpRightDownLeft_Extra),
             SwitchCall(TRUE, Switch_JoyR_Down),
             SwitchCall(TRUE, Switch_JoyR_Left) >>
    [] OTHER ->
          << SwitchCall(FALSE, Switch_JoyR_Up),
             SwitchCall(FALSE, Switch_JoyR_Down),
             SwitchCall(FALSE, Switch_JoyR_Left),
             SwitchCall(FALSE, Switch_JoyR_Right),
             SwitchCall(FALSE, Switch_JoyR_UpLeft_Extra),
             SwitchCall(FALSE, Switch_JoyR_UpRightDownLeft_Extra),
             SwitchCall(FALSE, Switch_JoyR_DownRight_Extra) >>

\* The calls of the change branch of process_Joystick_Right, in order
process_Joystick_Right_Calls(joyRight) ==
    << SwitchCall(BitAnd(joyRight, 16) # 0, Switch_JoyR_Button1),
       SwitchCall(BitAnd(joyRight, 32) # 0, Switch_JoyR_Button2) >> \o
    CASE
       BitAnd(joyRight, 15) = 1 ->
          << SwitchCall(FALSE, Switch_JoyR_Down),
             SwitchCall(FALSE, Switch_JoyR_Left),
             SwitchCall(FALSE, Switch_JoyR_Right),
             SwitchCall(FALSE, Switch_JoyR_UpLeft_Extra),
             SwitchCall(FALSE, Switch_JoyR_UpRightDownLeft_Extra),
             SwitchCall(FALSE, Switch_JoyR_DownRight_Extra),
             SwitchCall(TRUE, Switch_JoyR_Up) >>
    [] BitAnd(joyRight, 15) = 2 ->
          << SwitchCall(FALSE, Switch_JoyR_Up),
             SwitchCall(FALSE, Switch_JoyR_Left),
             SwitchCall(FALSE, Switch_JoyR_Right),
             SwitchCall(FALSE, Switch_JoyR_UpLeft_Extra),
             SwitchCall(FALSE, Switch_JoyR_UpRightDownLeft_Extra),
             SwitchCall(FALSE, Switch_JoyR_DownRight_Extra),
             SwitchCall(TRUE, Switch_JoyR_Down) >>
    [] BitAnd(joyRight, 15) = 4 ->
          << SwitchCall(FALSE, Switch_JoyR_Up),
             SwitchCall(FALSE, Switch_JoyR_Down),
             SwitchCall(FALSE, Switch_JoyR_Right),
             SwitchCall(FALSE, Switch_JoyR_UpLeft_Extra),
             SwitchCall(FALSE, Switch_JoyR_UpRightDownLeft_Extra),
             SwitchCall(FALSE, Switch_JoyR_DownRight_Extra),
             SwitchCall(TRUE, Switch_JoyR_Left) >>
    [] BitAnd(joyRight, 15) = 8 ->
          << SwitchCall(FALSE, Switch_JoyR_Up),
             SwitchCall(FALSE, Switch_JoyR_Down),
             SwitchCall(FALSE, Switch_JoyR_Left),
             SwitchCall(FALSE, Switch_JoyR_UpLeft_Extra),
             SwitchCall(FALSE, Switch_JoyR_UpRightDownLeft_Extra),
             SwitchCall(FALSE, Switch_JoyR_DownRight_Extra),
             SwitchCall(TRUE, Switch_JoyR_Right) >>
    [] BitAnd(joyRight, 15) = 5 ->
          << SwitchCall(FALSE, Switch_JoyR_Down),
             SwitchCall(FALSE, Switch_JoyR_Right),
             SwitchCall(FALSE, Switch_JoyR_UpRightDownLeft_Extra),
             SwitchCall(FALSE, Switch_JoyR_DownRight_Extra),
             SwitchCall(TRUE, Switch_JoyR_UpLeft_Extra),
             SwitchCall(TRUE, Switch_JoyR_Up),
             SwitchCall(TRUE, Switch_JoyR_Left) >>
    [] BitAnd(joyRight, 15) = 9 ->
          << SwitchCall(FALSE, Switch_JoyR_Down),
             SwitchCall(FALSE, Switch_JoyR_Left),
             SwitchCall(FALSE, Switch_JoyR_UpLeft_Extra),
             SwitchCall(FALSE, Switch_JoyR_DownRight_Extra),
             SwitchCall(TRUE, Switch_JoyR_UpRightDownLeft_Extra),
             SwitchCall(TRUE, Switch_JoyR_Up),
             SwitchCall(TRUE, Switch_JoyR_Right) >>
    [] BitAnd(joyRight, 15) = 10 ->
          << SwitchCall(FALSE, Switch_JoyR_Up),
             SwitchCall(FALSE, Switch_JoyR_Left),
             SwitchCall(FALSE, Switch_JoyR_UpLeft_Extra),
             SwitchCall(FALSE, Switch_JoyR_UpRightDownLeft_Extra),
             SwitchCall(TRUE, Switch_JoyR_DownRight_Extra),
             SwitchCall(TRUE, Switch_JoyR_Down),
             SwitchCall(TRUE, Switch_JoyR_Right) >>
    [] BitAnd(joyRight, 15) = 6 ->
          << SwitchCall(FALSE, Switch_JoyR_Up),
             SwitchCall(FALSE, Switch_JoyR_Right),
             SwitchCall(FALSE, Switch_JoyR_UpLeft_Extra),
             SwitchCall(FALSE, Switch_JoyR_DownRight_Extra),
             SwitchCall(TRUE, Switch_JoyR_UpRightDownLeft_Extra),
             SwitchCall(TRUE, Switch_JoyR_Down),
             SwitchCall(TRUE, Switch_JoyR_Left) >>
    [] OTHER ->
          << SwitchCall(FALSE, Switch_JoyR_Up),
             SwitchCall(FALSE, Switch_JoyR_Down),
             SwitchCall(FALSE, Switch_JoyR_Left),
             SwitchCall(FALSE, Switch_JoyR_Right),
             SwitchCall(FALSE, Switch_JoyR_UpLeft_Extra),
             SwitchCall(FALSE, Switch_JoyR_UpRightDownLeft_Extra),
             SwitchCall(FALSE, Switch_JoyR_DownRight_Extra) >>

-----------------------------------------------------------------------------
(* Scan code interpreter                                                   *)

\* The case labels of the switch of process_PS2_ScanCode
ScanCodeCases ==
    { 18, 20, 21, 22, 26, 27, 28, 29, 30, 33, 34, 35, 36, 37, 38, 41, 42, 
      43, 44, 45, 46, 49, 50, 51, 52, 53, 54, 58, 59, 60, 61, 62, 65, 66, 
      67, 68, 69, 70, 73, 74, 75, 76, 77, 78, 82, 89, 90, 102, 105, 107, 
      108, 112, 113, 114, 115, 116, 117, 122, 123, 125, 224, 225, 240 }

\* Variant: the switch statement entered without the if (scanCode) test
ScanCodeReceived_NoTest(sc) == TRUE

\* if (scanCode): a returned 0 means "buffer empty"
ScanCodeReceived(sc) == sc # 0

\* Variant: the default case does not clear key_release
Switch_key_release_NoDefaultClear(sc, rel) == IF sc = 240 THEN 1 ELSE rel

\* key_release after the switch statement
Switch_key_release(sc, rel) ==
    IF sc = 240 THEN 1
    ELSE IF sc \notin ScanCodeCases THEN 0
    ELSE rel

\* Variant: case 0xE1 missing, so that 0xE1 falls to the default case
Switch_extended_E0Only(sc, ext) ==
    IF sc = 224 THEN 1
    ELSE IF sc \notin (ScanCodeCases \ {225}) THEN 0
    ELSE ext

\* Variant: the release prefix clears extended
Switch_extended_ClearedByRelease(sc, ext) ==
    IF sc \in {224, 225} THEN 1
    ELSE IF sc = 240 \/ sc \notin ScanCodeCases THEN 0
    ELSE ext

\* extended after the switch statement
Switch_extended(sc, ext) ==
    IF sc \in {224, 225} THEN 1
    ELSE IF sc \notin ScanCodeCases THEN 0
    ELSE ext

\* switchValue_a after the switch statement
Switch_switchValue_a(sc, ext) ==
    CASE sc \in {240, 224, 225} -> NO_SWITCH_ACTION
    [] sc = 22 -> Switch_1_a
    [] sc = 105 -> IF ext = 0 THEN Switch_1_a ELSE NO_SWITCH_ACTION
    [] sc = 30 -> Switch_2_a
    [] sc = 114 -> IF ext = 0 THEN Switch_2_a ELSE NO_SWITCH_ACTION
    [] sc = 38 -> Switch_3_a
    [] sc = 122 -> IF ext = 0 THEN Switch_3_a ELSE NO_SWITCH_ACTION
    [] sc = 37 -> Switch_4_a
    [] sc = 46 -> Switch_5_a
    [] sc = 115 -> Switch_5_a
    [] sc = 54 -> Switch_6_a
    [] sc = 21 -> Switch_Q_a
    [] sc = 29 -> Switch_W_a
    [] sc = 36 -> Switch_E_a
    [] sc = 45 -> Switch_R_a
    [] sc = 44 -> Switch_T_a
    [] sc = 107 -> IF ext # 0 THEN Switch_LEFT_a ELSE Switch_4_a
    [] sc = 102 -> Switch_LEFT_a
    [] sc = 28 -> Switch_A_a
    [] sc = 27 -> Switch_S_a
    [] sc = 35 -> Switch_D_a
    [] sc = 43 -> Switch_F_a
    [] sc = 52 -> Switch_G_a
    [] sc = 18 -> IF ext = 0 THEN Switch_SHIFT ELSE NO_SWITCH_ACTION
    [] sc = 89 -> Switch_SHIFT
    [] sc = 26 -> Switch_Z_a
    [] sc = 34 -> Switch_X_a
    [] sc = 33 -> Switch_C_a
    [] sc = 42 -> Switch_V_a
    [] sc = 50 -> Switch_B_a
    [] sc = 20 -> Switch_CNTL
    [] sc = 61 -> Switch_7_a
    [] sc = 108 -> IF ext = 0 THEN Switch_7_a ELSE NO_SWITCH_ACTION
    [] sc = 62 -> Switch_8_a
    [] sc = 117 -> IF ext = 0 THEN Switch_8_a ELSE NO_SWITCH_ACTION
    [] sc = 70 -> Switch_9_a
    [] sc = 125 -> IF ext = 0 THEN Switch_9_a ELSE NO_SWITCH_ACTION
    [] sc = 69 -> Switch_0_a
    [] sc = 112 -> IF ext = 0 THEN Switch_0_a ELSE NO_SWITCH_ACTION
    [] sc = 82 -> Switch_COLON_a
    [] sc = 78 -> Switch_MINUS
    [] sc = 123 -> Switch_MINUS
    [] sc = 53 -> Switch_Y_a
    [] sc = 60 -> Switch_U_a
    [] sc = 67 -> Switch_I_a
    [] sc = 68 -> Switch_O_a
    [] sc = 77 -> Switch_P_a
    [] sc = 90 -> Switch_RETN_a
    [] sc = 51 -> Switch_H_a
    [] sc = 59 -> Switch_J_a
    [] sc = 66 -> Switch_K_a
    [] sc = 75 -> Switch_L_a
    [] sc = 76 -> Switch_SEMICOLON_a
    [] sc = 49 -> Switch_N_a
    [] sc = 58 -> Switch_M_a
    [] sc = 65 -> Switch_COMMA_a
    [] sc = 73 -> Switch_PERIOD_a
    [] sc = 113 -> IF ext = 0 THEN Switch_PERIOD_a ELSE NO_SWITCH_ACTION
    [] sc = 74 -> Switch_FORWARDSLASH_a
    [] sc = 116 -> IF ext # 0 THEN Switch_RIGHT ELSE Switch_6_a
    [] sc = 41 -> Switch_SPACE_a
    [] OTHER -> NO_SWITCH_ACTION

\* switchValue_b after the switch statement
Switch_switchValue_b(sc, ext) ==
    CASE sc \in {240, 224, 225} -> NO_SWITCH_ACTION
    [] sc = 22 -> Switch_1_b
    [] sc = 105 -> IF ext = 0 THEN Switch_1_b ELSE NO_SWITCH_ACTION
    [] sc = 30 -> Switch_2_b
    [] sc = 114 -> IF ext = 0 THEN Switch_2_b ELSE NO_SWITCH_ACTION
    [] sc = 38 -> Switch_3_b
    [] sc = 122 -> IF ext = 0 THEN Switch_3_b ELSE NO_SWITCH_ACTION
    [] sc = 37 -> Switch_4_b
    [] sc = 46 -> Switch_5_b
    [] sc = 115 -> Switch_5_b
    [] sc = 54 -> Switch_6_b
    [] sc = 21 -> Switch_Q_b
    [] sc = 29 -> Switch_W_b
    [] sc = 36 -> Switch_E_b
    [] sc = 45 -> Switch_R_b
    [] sc = 44 -> Switch_T_b
    [] sc = 107 -> IF ext # 0 THEN Switch_LEFT_b ELSE Switch_4_b
    [] sc = 102 -> Switch_LEFT_b
    [] sc = 28 -> Switch_A_b
    [] sc = 27 -> Switch_S_b
    [] sc = 35 -> Switch_D_b
    [] sc = 43 -> Switch_F_b
    [] sc = 52 -> Switch_G_b
    [] sc = 18 -> IF ext = 0 THEN NO_SWITCH_ACTION ELSE NO_SWITCH_ACTION
    [] sc = 89 -> NO_SWITCH_ACTION
    [] sc = 26 -> Switch_Z_b
    [] sc = 34 -> Switch_X_b
    [] sc = 33 -> Switch_C_b
    [] sc = 42 -> Switch_V_b
    [] sc = 50 -> Switch_B_b
    [] sc = 20 -> NO_SWITCH_ACTION
    [] sc = 61 -> Switch_7_b
    [] sc = 108 -> IF ext = 0 THEN Switch_7_b ELSE NO_SWITCH_ACTION
    [] sc = 62 -> Switch_8_b
    [] sc = 117 -> IF ext = 0 THEN Switch_8_b ELSE NO_SWITCH_ACTION
    [] sc = 70 -> Switch_9_b
    [] sc = 125 -> IF ext = 0 THEN Switch_9_b ELSE NO_SWITCH_ACTION
    [] sc = 69 -> Switch_0_b
    [] sc = 112 -> IF ext = 0 THEN Switch_0_b ELSE NO_SWITCH_ACTION
    [] sc = 82 -> Switch_COLON_b
    [] sc = 78 -> NO_SWITCH_ACTION
    [] sc = 123 -> NO_SWITCH_ACTION
    [] sc = 53 -> Switch_Y_b
    [] sc = 60 -> Switch_U_b
    [] sc = 67 -> Switch_I_b
    [] sc = 68 -> Switch_O_b
    [] sc = 77 -> Switch_P_b
    [] sc = 90 -> Switch_RETN_b
    [] sc = 51 -> Switch_H_b
    [] sc = 59 -> Switch_J_b
    [] sc = 66 -> Switch_K_b
    [] sc = 75 -> Switch_L_b
    [] sc = 76 -> Switch_SEMICOLON_b
    [] sc = 49 -> Switch_N_b
    [] sc = 58 -> Switch_M_b
    [] sc = 65 -> Switch_COMMA_b
    [] sc = 73 -> Switch_PERIOD_b
    [] sc = 113 -> IF ext = 0 THEN Switch_PERIOD_b ELSE NO_SWITCH_ACTION
    [] sc = 74 -> Switch_FORWARDSLASH_b
    [] sc = 116 -> IF ext # 0 THEN NO_SWITCH_ACTION ELSE Switch_6_b
    [] sc = 41 -> Switch_SPACE_b
    [] OTHER -> NO_SWITCH_ACTION

\* Variant: the call for switchValue_b always closes
process_PS2_ScanCode_Calls_SecondCloses(a, b, rel) ==
    (IF a # NO_SWITCH_ACTION THEN << SwitchCall(rel = 0, a) >> ELSE << >>) \o
    (IF b # NO_SWITCH_ACTION THEN << SwitchCall(TRUE, b) >> ELSE << >>)

\* Variant: a press opens and a release closes
process_PS2_ScanCode_Calls_Inverted(a, b, rel) ==
    (IF a # NO_SWITCH_ACTION THEN << SwitchCall(rel # 0, a) >> ELSE << >>) \o
    (IF b # NO_SWITCH_ACTION THEN << SwitchCall(rel # 0, b) >> ELSE << >>)

\* Variant: both calls made without the NO_SWITCH_ACTION tests
process_PS2_ScanCode_Calls_NoGuard(a, b, rel) ==
    << SwitchCall(rel = 0, a), SwitchCall(rel = 0, b) >>

\* Variant: switchValue_b driven before switchValue_a
process_PS2_ScanCode_Calls_Swapped(a, b, rel) ==
    (IF b # NO_SWITCH_ACTION THEN << SwitchCall(rel = 0, b) >> ELSE << >>) \o
    (IF a # NO_SWITCH_ACTION THEN << SwitchCall(rel = 0, a) >> ELSE << >>)

\* The calls process_PS2_ScanCode makes for (switchValue_a, switchValue_b)
process_PS2_ScanCode_Calls(a, b, rel) ==
    (IF a # NO_SWITCH_ACTION THEN << SwitchCall(rel = 0, a) >> ELSE << >>) \o
    (IF b # NO_SWITCH_ACTION THEN << SwitchCall(rel = 0, b) >> ELSE << >>)

-----------------------------------------------------------------------------
(* PS/2 frame decoder and scan code buffer                                 *)

\* Variant: the index is not wrapped at the end of the array
BufferNext_NoWrap(i) == i + 1

\* ++index, wrapping at PS2_ScanCodeBuffer_Size
BufferNext(i) == IF (i + 1) % 256 = PS2_ScanCodeBuffer_Size THEN 0 ELSE (i + 1) % 256

\* Variant: data rotated right instead of shifted, the top bit not cleared
ShiftIn_Rotate(d, thisBit) ==
    BitOr((d \div 2) + 128 * (d % 2), IF thisBit # 0 THEN 128 ELSE 0)

\* Variant: the data bits assembled most significant bit first
ShiftIn_MsbFirst(d, thisBit) == ((d * 2) % 256) + (IF thisBit # 0 THEN 1 ELSE 0)

\* data after one data bit has been sampled (bitCount 2..9)
ShiftIn(d, thisBit) ==
    IF thisBit # 0 THEN BitOr(d \div 2, 128) ELSE BitAnd(d \div 2, 127)

\* Variant: even parity accepted
FrameValid_EvenParity(parity, start, stop) ==
    (parity % 2 = 0) /\ (start = 0) /\ (stop # 0)

\* The test made after the 11th bit
FrameValid(parity, start, stop) == (parity % 2 # 0) /\ (start = 0) /\ (stop # 0)

\* Variant: the start index advanced by every push
PushStart_AlwaysDrop(start, newEnd) == BufferNext(start)

\* Variant: the oldest byte is not dropped when the end index reaches the start
PushStart_NoDrop(start, newEnd) == start

\* PS2_ScanCodeBuffer_Start after a push moved the end index to newEnd
PushStart(start, newEnd) == IF newEnd = start THEN BufferNext(start) ELSE start

\* Variant: the start index is not advanced by a read
PopStart_Stuck(start) == start

\* PS2_ScanCodeBuffer_Start after get_PS2_ScanCode read a byte
PopStart(start) == BufferNext(start)

-----------------------------------------------------------------------------
(* State                                                                   *)

VARIABLES
    \* PS2_Interrupt: static locals
    startBit, data, parityCount, stopBit, bitCount,
    \* the scan code buffer
    PS2_ScanCodeBuffer, PS2_ScanCodeBuffer_Start, PS2_ScanCodeBuffer_End,
    \* process_PS2_ScanCode: static flags, the local scanCode, and the local
    \* value of get_PS2_ScanCode
    key_release, extended, scanCode, value,
    \* the joystick samplers: previous snapshots, and the snapshot read by
    \* the invocation in progress
    joyLeft_prev, joyRight_prev, joy,
    \* PORTA.OUT and the closed crosspoints of the MT8816
    PORTA_OUT, matrix,
    \* poll context: statement of main, position in get_PS2_ScanCode, loop
    \* counters of MT8816_Reset, calls still to be made by the handler in
    \* progress, port writes done by the call in progress, handler entered
    pc, gpc, lp1, lp2, todo, sw, run,
    \* interrupts suppressed (ATOMIC_BLOCK); PS2_Interrupt installed
    atomic, handler,
    \* history: pin levels sampled in the current frame, clock edges seen,
    \* frames completed, bytes pushed, bytes dequeued, a push followed a
    \* dequeue, last get found a byte, calls issued by the handler in
    \* progress, flags at entry of the interpreter, joystick change polls
    frame, edges, frames, accepted, popped, mixed, got, log, entry, joyPolls

decVars  == << startBit, data, parityCount, stopBit, bitCount >>
bufVars  == << PS2_ScanCodeBuffer, PS2_ScanCodeBuffer_Start, PS2_ScanCodeBuffer_End >>
keyVars  == << key_release, extended, scanCode, value >>
joyVars  == << joyLeft_prev, joyRight_prev, joy >>
portVars == << PORTA_OUT, matrix >>
mainVars == << pc, gpc, lp1, lp2, todo, sw, run >>
intVars  == << atomic, handler >>
kbHist   == << frame, edges, frames, accepted, mixed >>
pollHist == << popped, got, log, entry, joyPolls >>

vars == << decVars, bufVars, keyVars, joyVars, portVars, mainVars, intVars,
           kbHist, pollHist >>

\* The static state at program start
InitStatics ==
    /\ startBit = 0 /\ data = 0 /\ parityCount = 0 /\ stopBit = 0 /\ bitCount = 0
    /\ PS2_ScanCodeBuffer = [i \in 0..(PS2_ScanCodeBuffer_Size - 1) |-> 0]
    /\ PS2_ScanCodeBuffer_Start = 0
    /\ PS2_ScanCodeBuffer_End = 0
    /\ key_release = 0 /\ extended = 0 /\ scanCode = 0 /\ value = 0
    /\ joyLeft_prev = 0 /\ joyRight_prev = 0 /\ joy = 0
    /\ PORTA_OUT = 0
    /\ gpc = "check" /\ todo = << >> /\ sw = 0 /\ run = FALSE
    /\ atomic = FALSE
    /\ frame = << >> /\ edges = 0 /\ frames = 0 /\ accepted = << >> /\ mixed = FALSE
    /\ popped = << >> /\ got = FALSE /\ log = << >> /\ entry = << 0, 0 >>
    /\ joyPolls = 0

-----------------------------------------------------------------------------
(* Interrupt context                                                       *)

\* Variant: get_PS2_ScanCode without its atomic block
InterruptsEnabled_NoAtomicBlock == handler

\* Interrupts reach the handler once it is installed, outside atomic blocks
InterruptsEnabled == handler /\ ~atomic

\* Variant: a frame whose start bit is 1 is abandoned at its first edge
PS2_Interrupt_AbandonsBadStart(pin) ==
    /\ InterruptsEnabled
    /\ LET thisBit == BitAnd(pin * PS2_Data_bm, PS2_Data_bm)
           bc      == (bitCount + 1) % 256
           sb      == IF bc = 1 THEN thisBit ELSE startBit
           d       == IF bc \in 2..9 THEN ShiftIn(data, thisBit) ELSE data
           par     == IF bc \in 2..10 /\ thisBit # 0
                      THEN (parityCount + 1) % 256 ELSE parityCount
           tb      == IF bc = 11 THEN thisBit ELSE stopBit
           push    == bc > 10 /\ FrameValid(par, sb, tb)
           newEnd  == BufferNext(PS2_ScanCodeBuffer_End)
           over    == bc > 10 \/ (bc = 1 /\ thisBit # 0)
       IN  /\ startBit' = sb
           /\ data' = d
           /\ stopBit' = tb
           /\ parityCount' = IF over THEN 0 ELSE par
           /\ bitCount' = IF over THEN 0 ELSE bc
           /\ IF push
              THEN /\ PS2_ScanCodeBuffer' =
                        [PS2_ScanCodeBuffer EXCEPT ![PS2_ScanCodeBuffer_End] = d]
                   /\ PS2_ScanCodeBuffer_End' = newEnd
                   /\ PS2_ScanCodeBuffer_Start' =
                        PushStart(PS2_ScanCodeBuffer_Start, newEnd)
              ELSE UNCHANGED bufVars
           /\ frame' = IF bitCount = 0 THEN << pin >> ELSE Append(frame, pin)
           /\ edges' = edges + 1
           /\ frames' = IF bc > 10 THEN frames + 1 ELSE frames
           /\ accepted' = IF push THEN Append(accepted, d) ELSE accepted
           /\ mixed' = (mixed \/ (push /\ popped # << >>))
    /\ UNCHANGED << keyVars, joyVars, portVars, mainVars, intVars, pollHist >>

\* One falling clock edge with the data pin at level pin
PS2_Interrupt(pin) ==
    /\ InterruptsEnabled
    /\ LET thisBit == BitAnd(pin * PS2_Data_bm, PS2_Data_bm)
           bc      == (bitCount + 1) % 256
           sb      == IF bc = 1 THEN thisBit ELSE startBit
           d       == IF bc \in 2..9 THEN ShiftIn(data, thisBit) ELSE data
           par     == IF bc \in 2..10 /\ thisBit # 0
                      THEN (parityCount + 1) % 256 ELSE parityCount
           tb      == IF bc = 11 THEN thisBit ELSE stopBit
           push    == bc > 10 /\ FrameValid(par, sb, tb)
           newEnd  == BufferNext(PS2_ScanCodeBuffer_End)
       IN  /\ startBit' = sb
           /\ data' = d
           /\ stopBit' = tb
           /\ parityCount' = IF bc > 10 THEN 0 ELSE par
           /\ bitCount' = IF bc > 10 THEN 0 ELSE bc
           /\ IF push
              THEN /\ PS2_ScanCodeBuffer' =
                        [PS2_ScanCodeBuffer EXCEPT ![PS2_ScanCodeBuffer_End] = d]
                   /\ PS2_ScanCodeBuffer_End' = newEnd
                   /\ PS2_ScanCodeBuffer_Start' =
                        PushStart(PS2_ScanCodeBuffer_Start, newEnd)
              ELSE UNCHANGED bufVars
           /\ frame' = IF bitCount = 0 THEN << pin >> ELSE Append(frame, pin)
           /\ edges' = edges + 1
           /\ frames' = IF bc > 10 THEN frames + 1 ELSE frames
           /\ accepted' = IF push THEN Append(accepted, d) ELSE accepted
           /\ mixed' = (mixed \/ (push /\ popped # << >>))
    /\ UNCHANGED << keyVars, joyVars, portVars, mainVars, intVars, pollHist >>

-----------------------------------------------------------------------------
(* Poll context: MT8816_Switch, one step per port write                    *)

\* PORTA.OUT = (switchAddressX | switchAddressY)
MT8816_Switch_Select ==
    /\ todo # << >> /\ sw = 0
    /\ PORTA_OUT' = MT8816_Address(Head(todo).addr)
    /\ matrix' = MT8816_Latch(matrix, PORTA_OUT')
    /\ sw' = 1
    /\ log' = Append(log, [on |-> Head(todo).on, addr |-> Head(todo).addr,
                           phys |-> PORTA_OUT'])
    /\ UNCHANGED << decVars, bufVars, keyVars, joyVars, pc, gpc, lp1, lp2, todo,
                    run, intVars, kbHist, popped, got, entry, joyPolls >>

\* PORTA.OUTSET / PORTA.OUTCLR = MT_Data_bm
MT8816_Switch_Data ==
    /\ todo # << >> /\ sw = 1
    /\ PORTA_OUT' = IF Head(todo).on THEN BitOr(PORTA_OUT, MT_Data_bm)
                                     ELSE BitClr(PORTA_OUT, MT_Data_bm)
    /\ matrix' = MT8816_Latch(matrix, PORTA_OUT')
    /\ sw' = 2
    /\ UNCHANGED << decVars, bufVars, keyVars, joyVars, pc, gpc, lp1, lp2, todo,
                    run, intVars, kbHist, pollHist >>

\* PORTA.OUTSET = MT_Strobe_bm
MT8816_Switch_Strobe ==
    /\ todo # << >> /\ sw = 2
    /\ PORTA_OUT' = BitOr(PORTA_OUT, MT_Strobe_bm)
    /\ matrix' = MT8816_Latch(matrix, PORTA_OUT')
    /\ sw' = 3
    /\ UNCHANGED << decVars, bufVars, keyVars, joyVars, pc, gpc, lp1, lp2, todo,
                    run, intVars, kbHist, pollHist >>

\* Variant: only the strobe pin is cleared (PORTA.OUTCLR = MT_Strobe_bm)
MT8816_Switch_Zero_StrobeOnly ==
    /\ todo # << >> /\ sw = 3
    /\ PORTA_OUT' = BitClr(PORTA_OUT, MT_Strobe_bm)
    /\ matrix' = MT8816_Latch(matrix, PORTA_OUT')
    /\ sw' = 0
    /\ todo' = Tail(todo)
    /\ UNCHANGED << decVars, bufVars, keyVars, joyVars, pc, gpc, lp1, lp2,
                    run, intVars, kbHist, pollHist >>

\* PORTA.OUT = 0, and the call returns
MT8816_Switch_Zero ==
    /\ todo # << >> /\ sw = 3
    /\ PORTA_OUT' = 0
    /\ matrix' = MT8816_Latch(matrix, PORTA_OUT')
    /\ sw' = 0
    /\ todo' = Tail(todo)
    /\ UNCHANGED << decVars, bufVars, keyVars, joyVars, pc, gpc, lp1, lp2,
                    run, intVars, kbHist, pollHist >>

-----------------------------------------------------------------------------
(* Poll context: main                                                      *)

\* One iteration of the loops of MT8816_Reset: the call is issued
MT8816_Reset_Call ==
    /\ pc = "reset" /\ todo = << >> /\ lp1 < 4
    /\ todo' = << SwitchCall(FALSE, MT8816_Reset_Address(lp1, lp2)) >>
    /\ lp2' = IF lp2 + 1 < 16 THEN lp2 + 1 ELSE 0
    /\ lp1' = IF lp2 + 1 < 16 THEN lp1 ELSE lp1 + 1
    /\ UNCHANGED << decVars, bufVars, keyVars, joyVars, portVars, pc, gpc, sw,
                    run, intVars, kbHist, pollHist >>

\* The loops of MT8816_Reset end
MT8816_Reset_Done ==
    /\ pc = "reset" /\ todo = << >> /\ lp1 = 4
    /\ pc' = "install"
    /\ UNCHANGED << decVars, bufVars, keyVars, joyVars, portVars, gpc, lp1, lp2,
                    todo, sw, run, intVars, kbHist, pollHist >>

\* IO_PF0_SetInterruptHandler(PS2_Interrupt)
IO_PF0_SetInterruptHandler ==
    /\ pc = "install"
    /\ handler' = TRUE
    /\ pc' = "joyL"
    /\ UNCHANGED << decVars, bufVars, keyVars, joyVars, portVars, gpc, lp1, lp2,
                    todo, sw, run, atomic, kbHist, pollHist >>

\* Variant: the calls are made at every poll, changed or not
process_Joystick_Left_NoCompare(portD) ==
    /\ pc = "joyL" /\ ~run
    /\ LET joyLeft == readJoystick_Left(portD)
       IN  /\ joy' = joyLeft
           /\ log' = << >>
           /\ todo' = process_Joystick_Left_Calls(joyLeft)
           /\ run' = TRUE
           /\ joyPolls' = joyPolls + (IF joyLeft # joyLeft_prev THEN 1 ELSE 0)
           /\ pc' = pc
    /\ UNCHANGED << decVars, bufVars, keyVars, joyLeft_prev, joyRight_prev,
                    portVars, gpc, lp1, lp2, sw, intVars, kbHist, popped, got,
                    entry >>

\* Variant: the previous snapshot is stored before the calls are made
process_Joystick_Left_EarlyStore(portD) ==
    /\ pc = "joyL" /\ ~run
    /\ LET joyLeft == readJoystick_Left(portD)
       IN  /\ joy' = joyLeft
           /\ log' = << >>
           /\ joyLeft_prev' = joyLeft
           /\ IF joyLeft # joyLeft_prev
              THEN /\ todo' = process_Joystick_Left_Calls(joyLeft)
                   /\ run' = TRUE
                   /\ joyPolls' = joyPolls + 1
                   /\ pc' = pc
              ELSE /\ pc' = "joyR"
                   /\ UNCHANGED << todo, run, joyPolls >>
    /\ UNCHANGED << decVars, bufVars, keyVars, joyRight_prev,
                    portVars, gpc, lp1, lp2, sw, intVars, kbHist, popped, got,
                    entry >>

\* process_Joystick_Left is entered with PORTD.IN = portD
process_Joystick_Left(portD) ==
    /\ pc = "joyL" /\ ~run
    /\ LET joyLeft == readJoystick_Left(portD)
       IN  /\ joy' = joyLeft
           /\ log' = << >>
           /\ IF joyLeft # joyLeft_prev
              THEN /\ todo' = process_Joystick_Left_Calls(joyLeft)
                   /\ run' = TRUE
                   /\ joyPolls' = joyPolls + 1
                   /\ pc' = pc
              ELSE /\ pc' = "joyR"
                   /\ UNCHANGED << todo, run, joyPolls >>
    /\ UNCHANGED << decVars, bufVars, keyVars, joyLeft_prev, joyRight_prev,
                    portVars, gpc, lp1, lp2, sw, intVars, kbHist, popped, got,
                    entry >>

\* joyLeft_prev = joyLeft, and process_Joystick_Left returns
process_Joystick_Left_Done ==
    /\ pc = "joyL" /\ run /\ todo = << >>
    /\ joyLeft_prev' = joy
    /\ run' = FALSE
    /\ pc' = "joyR"
    /\ UNCHANGED << decVars, bufVars, keyVars, joyRight_prev, joy, portVars, gpc,
                    lp1, lp2, todo, sw, intVars, kbHist, pollHist >>

\* process_Joystick_Right is entered with PORTC.IN = portC, PORTD.IN = portD
process_Joystick_Right(portC, portD) ==
    /\ pc = "joyR" /\ ~run
    /\ LET joyRight == readJoystick_Right(portC, portD)
       IN  /\ joy' = joyRight
           /\ log' = << >>
           /\ IF joyRight # joyRight_prev
              THEN /\ todo' = process_Joystick_Right_Calls(joyRight)
                   /\ run' = TRUE
                   /\ joyPolls' = joyPolls + 1
                   /\ pc' = pc
              ELSE /\ pc' = "ps2"
                   /\ UNCHANGED << todo, run, joyPolls >>
    /\ UNCHANGED << decVars, bufVars, keyVars, joyLeft_prev, joyRight_prev,
                    portVars, gpc, lp1, lp2, sw, intVars, kbHist, popped, got,
                    entry >>

\* joyRight_prev = joyRight, and process_Joystick_Right returns
process_Joystick_Right_Done ==
    /\ pc = "joyR" /\ run /\ todo = << >>
    /\ joyRight_prev' = joy
    /\ run' = FALSE
    /\ pc' = "ps2"
    /\ UNCHANGED << decVars, bufVars, keyVars, joyLeft_prev, joy, portVars, gpc,
                    lp1, lp2, todo, sw, intVars, kbHist, pollHist >>

\* Variant: get_PS2_ScanCode waits until the buffer holds a byte
get_PS2_ScanCode_Check_Waits ==
    /\ pc = "ps2" /\ ~run /\ gpc = "check"
    /\ PS2_ScanCodeBuffer_Start # PS2_ScanCodeBuffer_End
    /\ log' = << >>
    /\ entry' = << key_release, extended >>
    /\ got' = TRUE
    /\ gpc' = "read"
    /\ atomic' = TRUE
    /\ UNCHANGED << decVars, bufVars, key_release, extended, scanCode, value, joyVars,
                    portVars, pc, lp1, lp2, todo, sw, run, handler, kbHist,
                    popped, joyPolls >>

\* process_PS2_ScanCode is entered and calls get_PS2_ScanCode: the atomic
\* block is entered and the buffer tested; an empty buffer returns 0
get_PS2_ScanCode_Check ==
    /\ pc = "ps2" /\ ~run /\ gpc = "check"
    /\ log' = << >>
    /\ entry' = << key_release, extended >>
    /\ IF PS2_ScanCodeBuffer_Start = PS2_ScanCodeBuffer_End
       THEN /\ scanCode' = 0
            /\ got' = FALSE
            /\ gpc' = "ret"
            /\ atomic' = FALSE
       ELSE /\ got' = TRUE
            /\ gpc' = "read"
            /\ atomic' = TRUE
            /\ UNCHANGED scanCode
    /\ UNCHANGED << decVars, bufVars, key_release, extended, value, joyVars,
                    portVars, pc, lp1, lp2, todo, sw, run, handler, kbHist,
                    popped, joyPolls >>

\* value = PS2_ScanCodeBuffer[PS2_ScanCodeBuffer_Start]
get_PS2_ScanCode_Read ==
    /\ pc = "ps2" /\ gpc = "read"
    /\ value' = PS2_ScanCodeBuffer[PS2_ScanCodeBuffer_Start]
    /\ gpc' = "adv"
    /\ UNCHANGED << decVars, bufVars, key_release, extended, scanCode, joyVars,
                    portVars, pc, lp1, lp2, todo, sw, run, intVars, kbHist,
                    pollHist >>

\* The start index advances, the atomic block ends, value is returned
get_PS2_ScanCode_Advance ==
    /\ pc = "ps2" /\ gpc = "adv"
    /\ PS2_ScanCodeBuffer_Start' = PopStart(PS2_ScanCodeBuffer_Start)
    /\ atomic' = FALSE
    /\ scanCode' = value
    /\ gpc' = "ret"
    /\ popped' = Append(popped, value)
    /\ UNCHANGED << decVars, PS2_ScanCodeBuffer, PS2_ScanCodeBuffer_End,
                    key_release, extended, value, joyVars, portVars, pc, lp1,
                    lp2, todo, sw, run, handler, kbHist, got, log, entry,
                    joyPolls >>

\* if (scanCode) { switch (scanCode) ... }: the flags and switch values are
\* set; with no switch value the function returns
process_PS2_ScanCode_Switch ==
    /\ pc = "ps2" /\ gpc = "ret"
    /\ gpc' = "check"
    /\ IF ScanCodeReceived(scanCode)
       THEN LET a == Switch_switchValue_a(scanCode, extended)
                b == Switch_switchValue_b(scanCode, extended)
                rel == Switch_key_release(scanCode, key_release)
            IN  /\ key_release' = rel
                /\ extended' = Switch_extended(scanCode, extended)
                /\ IF (a # NO_SWITCH_ACTION) \/ (b # NO_SWITCH_ACTION)
                   THEN /\ todo' = process_PS2_ScanCode_Calls(a, b, rel)
                        /\ run' = TRUE
                        /\ pc' = pc
                   ELSE /\ pc' = "joyL"
                        /\ UNCHANGED << todo, run >>
       ELSE /\ pc' = "joyL"
            /\ UNCHANGED << key_release, extended, todo, run >>
    /\ UNCHANGED << decVars, bufVars, scanCode, value, joyVars, portVars, lp1,
                    lp2, sw, intVars, kbHist, pollHist >>

\* After the calls: key_release = 0; extended = 0; and the function returns
process_PS2_ScanCode_Done ==
    /\ pc = "ps2" /\ run /\ todo = << >>
    /\ key_release' = 0
    /\ extended' = 0
    /\ run' = FALSE
    /\ pc' = "joyL"
    /\ UNCHANGED << decVars, bufVars, scanCode, value, joyVars, portVars, gpc,
                    lp1, lp2, todo, sw, intVars, kbHist, pollHist >>

-----------------------------------------------------------------------------
(* Environment: the keyboard and the joystick lines                        *)

\* Bounds of the explored runs
MaxEdges == 11
MaxFrames == 3
MaxJoyPolls == 1
MaxPush == 255

Bit(x, k) == (x \div (2 ^ k)) % 2

\* Number of 1 levels in a sequence of pin levels
RECURSIVE Ones(_)
Ones(s) == IF s = << >> THEN 0 ELSE Head(s) + Ones(Tail(s))

\* The 11 pin levels a keyboard clocks out for byte b: start bit 0, data bits
\* least significant first, odd parity bit, stop bit 1
KeyboardFrame(b) ==
    LET bits == [i \in 1..8 |-> Bit(b, i - 1)]
    IN  << 0 >> \o bits \o << 1 - (Ones(bits) % 2), 1 >>

\* pin continues a well-formed frame of which the levels in sent were clocked
KeyboardPin(sent, pin) ==
    LET k == Len(sent) + 1
    IN  CASE k = 1  -> pin = 0
          [] k = 10 -> pin = 1 - (Ones(SubSeq(sent, 2, 9)) % 2)
          [] k = 11 -> pin = 1
          [] OTHER  -> TRUE

\* The levels clocked so far of the frame in progress
Sent == IF bitCount = 0 THEN << >> ELSE frame

\* PORTD.IN / PORTC.IN with the (active low) lines of a snapshot asserted
PortD_Left(snapshot) == 255 - snapshot * 4
PortC_Right(snapshot) == 255 - (snapshot % 16)
PortD_Right(snapshot) == 255 - (snapshot \div 16)

\* The main loop with both joysticks held as they were at the last poll
PollSteps ==
    \/ process_Joystick_Left(PortD_Left(joyLeft_prev))
    \/ process_Joystick_Right(PortC_Right(joyRight_prev), PortD_Right(joyRight_prev))
    \/ get_PS2_ScanCode_Check
    \/ get_PS2_ScanCode_Read
    \/ get_PS2_ScanCode_Advance
    \/ process_PS2_ScanCode_Switch
    \/ process_PS2_ScanCode_Done
    \/ MT8816_Switch_Select
    \/ MT8816_Switch_Data
    \/ MT8816_Switch_Strobe
    \/ MT8816_Switch_Zero

\* The state when main enters its loop
InitLoop ==
    /\ InitStatics
    /\ pc = "joyL" /\ lp1 = 4 /\ lp2 = 0
    /\ handler = TRUE
    /\ matrix = {}

-----------------------------------------------------------------------------
(* SpecFrame: the decoder fed arbitrary pin levels, the main loop running  *)

FrameInit == InitLoop

FrameNext ==
    \/ \E pin \in {0, 1} : edges < MaxEdges /\ PS2_Interrupt(pin)
    \/ PollSteps

SpecFrame == FrameInit /\ [][FrameNext]_vars

-----------------------------------------------------------------------------
(* SpecBuf: a keyboard sending the bytes 1, 2, 3, ... in well-formed       *)
(* frames; the main loop is held off until the buffer has been filled      *)

StreamByte(n) == ((n - 1) % 255) + 1

BurstLen == PS2_ScanCodeBuffer_Size - 1

BufInit == InitLoop

BufNext ==
    \/ \E pin \in {0, 1} :
          /\ frames < MaxPush
          /\ pin = KeyboardFrame(StreamByte(frames + 1))[bitCount + 1]
          /\ PS2_Interrupt(pin)
    \/ (frames >= BurstLen /\ PollSteps)

SpecBuf == BufInit /\ [][BufNext]_vars

-----------------------------------------------------------------------------
(* Spec: the program from power-on.  The keyboard sends well-formed frames *)
(* of any byte, at most MaxFrames of them and nothing after a byte that is *)
(* not a prefix code, and starts a frame only once the byte before it has  *)
(* been consumed; the joysticks move at most MaxJoyPolls times, before the *)
(* first clock edge.                                                       *)

PowerOnMatrices == { {}, 0..63, {19, 42} }

PrefixCodes == {240, 224, 225}

KeyboardSends(pin) ==
    /\ joyPolls = 0
    /\ bitCount = 0 =>
          /\ frames < MaxFrames
          /\ \A i \in DOMAIN accepted : accepted[i] \in PrefixCodes
          /\ PS2_ScanCodeBuffer_Start = PS2_ScanCodeBuffer_End
          /\ gpc = "check" /\ ~run
    /\ KeyboardPin(Sent, pin)

Snapshots(prev) ==
    IF edges = 0 /\ joyPolls < MaxJoyPolls THEN 0..63 ELSE {prev}

Init ==
    /\ InitStatics
    /\ pc = "reset" /\ lp1 = 0 /\ lp2 = 0
    /\ handler = FALSE
    /\ matrix \in PowerOnMatrices

Next ==
    \/ MT8816_Reset_Call
    \/ MT8816_Reset_Done
    \/ IO_PF0_SetInterruptHandler
    \/ \E pin \in {0, 1} : KeyboardSends(pin) /\ PS2_Interrupt(pin)
    \/ \E s \in Snapshots(joyLeft_prev) : process_Joystick_Left(PortD_Left(s))
    \/ process_Joystick_Left_Done
    \/ \E s \in Snapshots(joyRight_prev) :
          process_Joystick_Right(PortC_Right(s), PortD_Right(s))
    \/ process_Joystick_Right_Done
    \/ get_PS2_ScanCode_Check
    \/ get_PS2_ScanCode_Read
    \/ get_PS2_ScanCode_Advance
    \/ process_PS2_ScanCode_Switch
    \/ process_PS2_ScanCode_Done
    \/ MT8816_Switch_Select
    \/ MT8816_Switch_Data
    \/ MT8816_Switch_Strobe
    \/ MT8816_Switch_Zero

Spec == Init /\ [][Next]_vars

-----------------------------------------------------------------------------
(* SpecJoy: the main loop with a silent keyboard.  One joystick at a time  *)
(* is away from rest; its lines take any values at a poll, for at most     *)
(* MaxJoyMoves change polls.                                               *)

MaxJoyMoves == 2

JoyMoves(prev, other_prev) ==
    IF joyPolls < MaxJoyMoves /\ other_prev = 0 THEN 0..63 ELSE {prev}

JoyInit == InitLoop

JoyNext ==
    \/ \E s \in JoyMoves(joyLeft_prev, joyRight_prev) :
          process_Joystick_Left(PortD_Left(s))
    \/ process_Joystick_Left_Done
    \/ \E s \in JoyMoves(joyRight_prev, joyLeft_prev) :
          process_Joystick_Right(PortC_Right(s), PortD_Right(s))
    \/ process_Joystick_Right_Done
    \/ get_PS2_ScanCode_Check
    \/ process_PS2_ScanCode_Switch
    \/ MT8816_Switch_Select
    \/ MT8816_Switch_Data
    \/ MT8816_Switch_Strobe
    \/ MT8816_Switch_Zero

SpecJoy == JoyInit /\ [][JoyNext]_vars

-----------------------------------------------------------------------------
(* SpecFrames: the decoder fed one of FirstFrames and then arbitrary pin   *)
(* levels, the main loop running                                           *)

MaxFrameEdges == 22

\* First frames: three well-formed ones, and one each with a wrong start
\* bit, a wrong stop bit and a wrong parity bit
FirstFrames ==
    { KeyboardFrame(28), KeyboardFrame(255), KeyboardFrame(0),
      << 1, 1, 1, 1, 1, 1, 1, 1, 1, 1, 1 >>,
      << 0, 0, 0, 0, 0, 0, 0, 0, 0, 0, 0 >>,
      << 0, 1, 0, 1, 0, 0, 1, 0, 1, 0, 1 >> }

FramesNext ==
    \/ \E pin \in {0, 1} :
          /\ edges < MaxFrameEdges
          /\ (edges < 11) =>
                \E f \in FirstFrames : SubSeq(f, 1, edges + 1) = Append(Sent, pin)
          /\ PS2_Interrupt(pin)
    \/ PollSteps

SpecFrames == InitLoop /\ [][FramesNext]_vars

------------------------------------------------------------------------------
(* SpecLive: the program from power-on with the processor always running.  *)
(* The keyboard clocks out frames of LiveFrames, at most MaxLiveEdges      *)
(* clock edges in all, at any moment the handler can run; each joystick    *)
(* reads any of LiveSnapshots at a poll, for at most MaxJoyPolls change    *)
(* polls.                                                                  *)

MaxLiveEdges == 22

\* The frames of a key, of the release prefix and of a code without a case,
\* a frame with a wrong parity bit and one with a wrong start bit
LiveFrames ==
    { KeyboardFrame(28), KeyboardFrame(240), KeyboardFrame(255),
      << 0, 1, 0, 1, 0, 0, 1, 0, 1, 0, 1 >>,
      << 1, 1, 1, 1, 1, 1, 1, 1, 1, 1, 1 >> }

LiveSnapshots(prev) ==
    IF joyPolls < MaxJoyPolls THEN {0, 18} ELSE {prev}

\* The steps of main and of what it calls
MainSteps ==
    \/ MT8816_Reset_Call
    \/ MT8816_Reset_Done
    \/ IO_PF0_SetInterruptHandler
    \/ \E s \in LiveSnapshots(joyLeft_prev) : process_Joystick_Left(PortD_Left(s))
    \/ process_Joystick_Left_Done
    \/ \E s \in LiveSnapshots(joyRight_prev) :
          process_Joystick_Right(PortC_Right(s), PortD_Right(s))
    \/ process_Joystick_Right_Done
    \/ get_PS2_ScanCode_Check
    \/ get_PS2_ScanCode_Read
    \/ get_PS2_ScanCode_Advance
    \/ process_PS2_ScanCode_Switch
    \/ process_PS2_ScanCode_Done
    \/ MT8816_Switch_Select
    \/ MT8816_Switch_Data
    \/ MT8816_Switch_Strobe
    \/ MT8816_Switch_Zero

LiveNext ==
    \/ \E pin \in {0, 1} :
          /\ edges < MaxLiveEdges
          /\ \E f \in LiveFrames : SubSeq(f, 1, bitCount + 1) = Append(Sent, pin)
          /\ PS2_Interrupt(pin)
    \/ MainSteps

\* The processor executes the next instruction of main whenever no
\* interrupt is being served
SpecLive == Init /\ [][LiveNext]_vars /\ WF_vars(MainSteps)

------------------------------------------------------------------------------
(* SpecKeys: the main loop with keys and joysticks in use together.  The   *)
(* keyboard sends well-formed frames of KeyBytes, each clocked in between  *)
(* two rounds of the loop and only when the byte before was consumed; a    *)
(* joystick is at rest or held (the left one Down+Left, the right one     *)
(* Down) at a poll made while the keyboard is silent; at most MaxEvents    *)
(* frames and change polls in all.                                         *)

MaxEvents == 4

\* The release prefix and the keys '1', S, A and SPACE
KeyBytes == {240, 22, 27, 28, 41}

\* A joystick is at rest or held at snapshot away
KeySnapshots(prev, away) ==
    IF /\ frames + joyPolls < MaxEvents
       /\ bitCount = 0
       /\ PS2_ScanCodeBuffer_Start = PS2_ScanCodeBuffer_End
    THEN {0, away}
    ELSE {prev}

KeysNext ==
    \/ \E pin \in {0, 1} :
          /\ pc = "joyL" /\ ~run
          /\ (bitCount = 0) =>
                /\ frames + joyPolls < MaxEvents
                /\ PS2_ScanCodeBuffer_Start = PS2_ScanCodeBuffer_End
          /\ \E b \in KeyBytes :
                SubSeq(KeyboardFrame(b), 1, bitCount + 1) = Append(Sent, pin)
          /\ PS2_Interrupt(pin)
    \/ \E s \in KeySnapshots(joyLeft_prev, 6) : process_Joystick_Left(PortD_Left(s))
    \/ process_Joystick_Left_Done
    \/ \E s \in KeySnapshots(joyRight_prev, 2) :
          process_Joystick_Right(PortC_Right(s), PortD_Right(s))
    \/ process_Joystick_Right_Done
    \/ get_PS2_ScanCode_Check
    \/ get_PS2_ScanCode_Read
    \/ get_PS2_ScanCode_Advance
    \/ process_PS2_ScanCode_Switch
    \/ process_PS2_ScanCode_Done
    \/ MT8816_Switch_Select
    \/ MT8816_Switch_Data
    \/ MT8816_Switch_Strobe
    \/ MT8816_Switch_Zero

SpecKeys == InitLoop /\ [][KeysNext]_vars

-----------------------------------------------------------------------------
(* Properties                                                              *)

Last(s) == s[Len(s)]

\* The byte whose bits a sampled frame carries in positions 2..9, least
\* significant bit first
FrameByte(f) ==
    f[2] + 2 * f[3] + 4 * f[4] + 8 * f[5] + 16 * f[6] + 32 * f[7] + 64 * f[8] + 128 * f[9]

\* Start bit 0, stop bit 1, odd number of 1s among data and parity bits
FrameWellFormed(f) ==
    /\ f[1] = 0
    /\ f[11] = 1
    /\ Ones(SubSeq(f, 2, 10)) % 2 = 1

EmptyBuffer == [i \in 0..(PS2_ScanCodeBuffer_Size - 1) |-> 0]

\* The unread bytes of the buffer, oldest first
Unread ==
    LET n == (PS2_ScanCodeBuffer_End - PS2_ScanCodeBuffer_Start
                + PS2_ScanCodeBuffer_Size) % PS2_ScanCodeBuffer_Size
    IN  [i \in 1..n |->
            PS2_ScanCodeBuffer[(PS2_ScanCodeBuffer_Start + i - 1) % PS2_ScanCodeBuffer_Size]]

\* p is a subsequence of a: p[i..] can be matched in order within a[j..]
RECURSIVE SubseqFrom(_, _, _, _)
SubseqFrom(p, a, i, j) ==
    IF i > Len(p) THEN TRUE
    ELSE IF j > Len(a) THEN FALSE
    ELSE IF p[i] = a[j] THEN SubseqFrom(p, a, i + 1, j + 1)
    ELSE SubseqFrom(p, a, i, j + 1)

\* C1: after the 11 edges of the first frame, exactly one byte has been
\* pushed iff the start bit is 0, the stop bit is 1 and the data and parity
\* bits hold an odd number of 1s; otherwise nothing was pushed and the
\* buffer indices and contents are as they were.
C1_FrameAccepted ==
    (edges = 11) =>
        IF FrameWellFormed(frame)
        THEN /\ PS2_ScanCodeBuffer_End = 1
             /\ \A i \in 1..(PS2_ScanCodeBuffer_Size - 1) : PS2_ScanCodeBuffer[i] = 0
        ELSE /\ PS2_ScanCodeBuffer_End = 0
             /\ PS2_ScanCodeBuffer_Start = 0
             /\ PS2_ScanCodeBuffer = EmptyBuffer

C1_Witness ==
    /\ edges = 11
    /\ frame = << 0, 0, 0, 1, 1, 1, 0, 0, 0, 0, 1 >>
    /\ PS2_ScanCodeBuffer_End = 1

\* C2 as stated: for every byte 0x00..0xFF, after its well-formed frame the
\* call of get_PS2_ScanCode that dequeues it hands that value to the
\* interpreter as a received byte.
C2_Original ==
    (edges = 11 /\ gpc = "ret" /\ got /\ frame = KeyboardFrame(FrameByte(frame))) =>
        /\ scanCode = FrameByte(frame)
        /\ ScanCodeReceived(scanCode)

\* C2 amended: the same for every byte 0x01..0xFF; the byte 0x00 is dequeued
\* too, but its value is the one get_PS2_ScanCode returns for an empty
\* buffer, and the interpreter takes it for "no byte".
C2_ByteDelivered ==
    (edges = 11 /\ gpc = "ret" /\ got /\ frame = KeyboardFrame(FrameByte(frame))) =>
        /\ scanCode = FrameByte(frame)
        /\ ScanCodeReceived(scanCode) <=> (FrameByte(frame) # 0)
        /\ PS2_ScanCodeBuffer_Start = PS2_ScanCodeBuffer_End

C2_Witness ==
    /\ edges = 11 /\ gpc = "ret" /\ got
    /\ frame = KeyboardFrame(28)
    /\ scanCode = 28

\* C3 as stated: after C + 1 pushes with no pop in between, the pops return
\* b2, b3, ... and the buffer is empty only after C of them.
C3_Original ==
    (Len(accepted) = PS2_ScanCodeBuffer_Size + 1 /\ ~mixed) =>
        /\ \A i \in DOMAIN popped : popped[i] = accepted[i + 1]
        /\ (PS2_ScanCodeBuffer_Start = PS2_ScanCodeBuffer_End) =>
               (Len(popped) = PS2_ScanCodeBuffer_Size)

\* C3 amended: the buffer holds at most C - 1 bytes, so after C + 1 pushes
\* with no pop in between b1 and b2 are gone: the pops return b3, b4, ...,
\* the buffer is empty after exactly C - 1 of them, and the next call of
\* get_PS2_ScanCode returns 0.
C3_DropOldest ==
    (Len(accepted) = PS2_ScanCodeBuffer_Size + 1 /\ ~mixed) =>
        /\ Len(popped) <= PS2_ScanCodeBuffer_Size - 1
        /\ \A i \in DOMAIN popped : popped[i] = accepted[i + 2]
        /\ (PS2_ScanCodeBuffer_Start = PS2_ScanCodeBuffer_End) <=>
               (Len(popped) = PS2_ScanCodeBuffer_Size - 1 /\ gpc # "adv")
        /\ (gpc = "ret" /\ ~got) => (scanCode = 0)

C3_Witness ==
    /\ Len(accepted) = PS2_ScanCodeBuffer_Size + 1
    /\ ~mixed
    /\ Len(popped) = PS2_ScanCodeBuffer_Size - 1
    /\ gpc = "ret" /\ ~got

\* C4: a push always stores the new byte as the newest unread byte; onto a
\* full buffer (C - 1 unread bytes) it drops exactly the oldest one, onto
\* any other it drops nothing; a pop returns the oldest unread byte and
\* leaves the others in order.
C4_PushNeverFails ==
    [][ /\ (accepted' # accepted) =>
              Unread' = (IF Len(Unread) = PS2_ScanCodeBuffer_Size - 1
                         THEN Tail(Unread) ELSE Unread) \o << Last(accepted') >>
        /\ (popped' # popped) =>
              Unread = << Last(popped') >> \o Unread'
      ]_vars

C4_Witness ==
    /\ Len(accepted) = PS2_ScanCodeBuffer_Size
    /\ ~mixed
    /\ Len(popped) = PS2_ScanCodeBuffer_Size - 1
    /\ popped[1] = accepted[2]
    /\ Last(popped) = Last(accepted)
    /\ Unread = << >>

\* C5: whatever the interleaving, after every pop the dequeued bytes are a
\* subsequence of the pushed bytes (a push only appends to the pushed
\* bytes), each dequeued byte was the oldest unread one, and no
\* push happens between the empty test of get_PS2_ScanCode and its index
\* advance.
C5_PopsAreOrderedSubsequence ==
    [][ /\ (popped' # popped) =>
              /\ SubseqFrom(popped', accepted', 1, 1)
              /\ Unread # << >> /\ Last(popped') = Head(Unread)
        /\ (gpc \in {"read", "adv"}) =>
              /\ PS2_ScanCodeBuffer' = PS2_ScanCodeBuffer
              /\ PS2_ScanCodeBuffer_End' = PS2_ScanCodeBuffer_End
              /\ accepted' = accepted
      ]_vars

C5_Witness ==
    /\ mixed
    /\ Len(accepted) = PS2_ScanCodeBuffer_Size + 1
    /\ Len(popped) = PS2_ScanCodeBuffer_Size
    /\ popped[1] = accepted[1]
    /\ popped[2] = accepted[3]
    /\ Unread = << >>

\* logical X -> X written to the port: 6..11 to X + 2, 12..13 to X - 6
RemapTable == << 0, 1, 2, 3, 4, 5, 8, 9, 10, 11, 12, 13, 6, 7, 14, 15 >>

\* The port address for a logical address: X remapped, Y (bits 4-5) kept
PortAddress(a) == RemapTable[(a % 16) + 1] + 16 * ((a \div 16) % 4)

\* C6: every call selects the remapped X of the low 4 address bits with the Y
\* field unchanged; distinct addresses select distinct crosspoints, and the
\* 64 addresses of the reset select all 64 crosspoints.
C6_Remap ==
    /\ \A i \in DOMAIN log :
          /\ log[i].phys = PortAddress(log[i].addr)
          /\ \A j \in DOMAIN log :
                (log[j].addr # log[i].addr) => (log[j].phys # log[i].phys)
    /\ (pc = "install") => ({log[i].phys : i \in DOMAIN log} = 0..63)

C6_Witness ==
    /\ pc = "install"
    /\ \E i \in DOMAIN log : log[i].addr = 6 /\ log[i].phys = 8
    /\ \E i \in DOMAIN log : log[i].addr = 11 /\ log[i].phys = 13
    /\ \E i \in DOMAIN log : log[i].addr = 12 /\ log[i].phys = 6
    /\ \E i \in DOMAIN log : log[i].addr = 13 /\ log[i].phys = 7
    /\ \E i \in DOMAIN log : log[i].addr = 0 /\ log[i].phys = 0
    /\ \E i \in DOMAIN log : log[i].addr = 15 /\ log[i].phys = 15
    /\ \E i \in DOMAIN log : log[i].addr = 61 /\ log[i].phys = 55

\* PORTA.OUT as it must be after n port writes of the call c
PortAfter(n, c) ==
    CASE n = 0 -> 0
      [] n = 1 -> PortAddress(c.addr)
      [] n = 2 -> PortAddress(c.addr) + (IF c.on THEN MT_Data_bm ELSE 0)
      [] n = 3 -> PortAddress(c.addr) + (IF c.on THEN MT_Data_bm ELSE 0) + MT_Strobe_bm

\* C7: the port holds, in this order, the remapped address with data and
\* strobe low, then also the data level, then also the strobe, then zero;
\* the strobe is high only in the third of these; the only crosspoint that
\* changes is the addressed one, when the strobe rises, to the data level.
C7_SwitchProtocol ==
    [][ /\ (todo' # << >>) => (PORTA_OUT' = PortAfter(sw', Head(todo')))
        /\ (todo' = << >>) => (PORTA_OUT' = 0 /\ sw' = 0)
        /\ (BitAnd(PORTA_OUT', MT_Strobe_bm) # 0) => (sw' = 3)
        /\ IF sw = 2 /\ sw' = 3
           THEN matrix' = IF Head(todo).on
                          THEN matrix \cup {PortAddress(Head(todo).addr)}
                          ELSE matrix \ {PortAddress(Head(todo).addr)}
           ELSE matrix' = matrix
        /\ (sw' # sw) => (sw' = (sw + 1) % 4)
      ]_vars

C7_Witness ==
    /\ sw = 3
    /\ Head(todo).on
    /\ Head(todo).addr = 16
    /\ matrix = {PortAddress(20), PortAddress(16)}
    /\ PORTA_OUT = 16 + 128 + 64

\* C8: while MT8816_Reset runs and until the handler is installed no
\* interrupt is handled and no poll has run; when it ends it has issued
\* exactly one call (false, a) for each address 0..63 and every crosspoint
\* is open.
C8_ResetOpensAll ==
    /\ (pc \in {"reset", "install"}) =>
          /\ ~handler /\ edges = 0
          /\ joyPolls = 0 /\ popped = << >> /\ gpc = "check" /\ ~run
          /\ joyLeft_prev = 0 /\ joyRight_prev = 0
          /\ \A i \in DOMAIN log : ~log[i].on
    /\ (pc = "install") =>
          /\ Len(log) = 64
          /\ \A a \in 0..63 : Cardinality({i \in DOMAIN log : log[i].addr = a}) = 1
          /\ todo = << >>
          /\ matrix = {}
    /\ (pc = "joyL" /\ Len(log) = 64) => (matrix = {})

C8_Witness ==
    /\ pc = "joyL"
    /\ handler
    /\ Len(log) = 64
    /\ matrix = {}

\* C9: no call, issued or about to be issued, carries an address with bit
\* 0x80 set; every address is in 0x00..0x3F.
C9_NoSentinelReachesDriver ==
    /\ \A i \in DOMAIN log :
          BitAnd(log[i].addr, NO_SWITCH_ACTION) = 0 /\ log[i].addr \in 0..63
    /\ \A i \in DOMAIN todo :
          BitAnd(todo[i].addr, NO_SWITCH_ACTION) = 0 /\ todo[i].addr \in 0..63

C9_Witness ==
    /\ pc = "joyL" /\ ~run /\ got
    /\ scanCode = 18
    /\ Len(log) = 1
    /\ log[1].addr = Switch_SHIFT

\* Scan codes with two switch values that do not depend on extended
LetterCodes ==
    { sc \in 0..255 :
        /\ Switch_switchValue_a(sc, 0) # NO_SWITCH_ACTION
        /\ Switch_switchValue_b(sc, 0) # NO_SWITCH_ACTION
        /\ Switch_switchValue_a(sc, 1) = Switch_switchValue_a(sc, 0)
        /\ Switch_switchValue_b(sc, 1) = Switch_switchValue_b(sc, 0) }

\* C10: when process_PS2_ScanCode returns from a letter code that it got
\* with both flags 0, it has issued exactly the calls (true, a), (true, b),
\* in this order, and both flags are 0.
C10_LetterPress ==
    (pc = "joyL" /\ ~run /\ got /\ scanCode \in LetterCodes /\ entry = << 0, 0 >>) =>
        /\ Len(log) = 2
        /\ log[1].on /\ log[1].addr = Switch_switchValue_a(scanCode, 0)
        /\ log[2].on /\ log[2].addr = Switch_switchValue_b(scanCode, 0)
        /\ key_release = 0 /\ extended = 0

C10_Witness ==
    /\ pc = "joyL" /\ ~run /\ got
    /\ scanCode = 28
    /\ entry = << 0, 0 >>
    /\ Len(log) = 2
    /\ log[1] = [on |-> TRUE, addr |-> Switch_A_a, phys |-> 20]
    /\ log[2] = [on |-> TRUE, addr |-> Switch_A_b, phys |-> 16]


\* process_PS2_ScanCode has returned from the poll that dequeued a byte
Returned == pc = "joyL" /\ ~run /\ got

\* The byte dequeued before the last one, 0 if there is none
PreviousByte == IF Len(popped) >= 2 THEN popped[Len(popped) - 1] ELSE 0

\* The case labels that are not prefix codes
KeyCodes == ScanCodeCases \ PrefixCodes

\* The addresses, without the sentinel, code sc resolves to
KeyAddresses(sc, ext) ==
    SelectSeq(<< Switch_switchValue_a(sc, ext), Switch_switchValue_b(sc, ext) >>,
              LAMBDA v : v # NO_SWITCH_ACTION)

LogAddresses == [i \in DOMAIN log |-> log[i].addr]

\* C11 as stated: when the interpreter returns from a key code that was
\* dequeued right after 0xF0, it has issued setSwitch(false, ...) for each
\* address the code resolves to, no setSwitch(true, ...), and both flags
\* are 0.
C11_Original ==
    (Returned /\ scanCode \in KeyCodes /\ PreviousByte = 240) =>
        /\ LogAddresses = KeyAddresses(scanCode, entry[2])
        /\ \A i \in DOMAIN log : ~log[i].on
        /\ key_release = 0 /\ extended = 0

\* The two mappings of the codes that depend on extended: << extended = 0,
\* extended = 1 >>
ExtendedSensitive ==
    [sc \in {107, 116, 105, 114, 122, 108, 117, 125, 112, 113, 18} |->
        CASE sc = 107 -> << << Switch_4_a, Switch_4_b >>, << Switch_LEFT_a, Switch_LEFT_b >> >>
          [] sc = 116 -> << << Switch_6_a, Switch_6_b >>, << Switch_RIGHT >> >>
          [] sc = 105 -> << << Switch_1_a, Switch_1_b >>, << >> >>
          [] sc = 114 -> << << Switch_2_a, Switch_2_b >>, << >> >>
          [] sc = 122 -> << << Switch_3_a, Switch_3_b >>, << >> >>
          [] sc = 108 -> << << Switch_7_a, Switch_7_b >>, << >> >>
          [] sc = 117 -> << << Switch_8_a, Switch_8_b >>, << >> >>
          [] sc = 125 -> << << Switch_9_a, Switch_9_b >>, << >> >>
          [] sc = 112 -> << << Switch_0_a, Switch_0_b >>, << >> >>
          [] sc = 113 -> << << Switch_PERIOD_a, Switch_PERIOD_b >>, << >> >>
          [] sc = 18  -> << << Switch_SHIFT >>, << >> >>]

\* C12: extended is 0 for a first byte and 1 right after 0xE0 or 0xE1; a
\* code that depends on extended issues calls for the keypad (or shift)
\* addresses when it is entered with extended = 0, and for the navigation
\* addresses (LEFT pair, RIGHT) or none at all when it is entered with
\* extended = 1.
C12_ExtendedMapping ==
    (Returned /\ scanCode \in DOMAIN ExtendedSensitive) =>
        /\ (Len(popped) = 1) => (entry[2] = 0)
        /\ (PreviousByte \in {224, 225}) => (entry[2] = 1)
        /\ LogAddresses = ExtendedSensitive[scanCode][entry[2] + 1]

C12_Witness ==
    /\ Returned
    /\ popped = << 225, 116 >>
    /\ LogAddresses = << Switch_RIGHT >>
    /\ log[1].on

\* C13 as stated: when the interpreter returns from a byte that is not a
\* case label, it has issued no call and both flags are 0.
C13_Original ==
    (Returned /\ Len(popped) >= 1 /\ Last(popped) \notin ScanCodeCases) =>
        /\ log = << >>
        /\ key_release = 0 /\ extended = 0

\* C13 amended: the same for the bytes 0x01..0xFF that are not case labels;
\* for the byte 0x00, which the interpreter takes for "no byte", no call is
\* issued and both flags are as they were.
C13_UnknownCode ==
    (Returned /\ Len(popped) >= 1 /\ Last(popped) \notin ScanCodeCases) =>
        /\ log = << >>
        /\ scanCode = Last(popped)
        /\ IF Last(popped) # 0
           THEN key_release = 0 /\ extended = 0
           ELSE << key_release, extended >> = entry

C13_Witness ==
    /\ Returned
    /\ popped = << 240, 224, 2 >>
    /\ entry = << 1, 1 >>
    /\ key_release = 0 /\ extended = 0
    /\ log = << >>

\* C14 as stated: when the interpreter returns from a received byte that is
\* not a prefix code, both flags are 0.
C14_Original ==
    (Returned /\ ScanCodeReceived(scanCode) /\ scanCode \notin PrefixCodes) =>
        (key_release = 0 /\ extended = 0)

\* C15: a call of get_PS2_ScanCode that finds the buffer empty, and the
\* rest of that invocation of process_PS2_ScanCode, leave the flags, the
\* buffer indices and the buffer contents as they are and issue no call.
C15_EmptyPollNoOp ==
    [][ ((pc = "ps2" /\ ~run /\ gpc = "check" /\ gpc' = "ret" /\ ~got')
            \/ (pc = "ps2" /\ gpc = "ret" /\ ~got /\ gpc' = "check")) =>
          /\ UNCHANGED << key_release, extended, PS2_ScanCodeBuffer,
                          PS2_ScanCodeBuffer_Start, PS2_ScanCodeBuffer_End,
                          PORTA_OUT, matrix >>
          /\ todo' = << >> /\ log' = << >> /\ ~run'
          /\ (gpc' = "check") => (pc' = "joyL")
      ]_vars

C15_Witness ==
    /\ pc = "joyL" /\ ~run /\ ~got /\ gpc = "check"
    /\ popped = << 240 >>
    /\ key_release = 1
    /\ log = << >>

\* The flags when process_PS2_ScanCode has returned from a prefix code
PrefixProcessed ==
    (Returned /\ scanCode \in PrefixCodes) =>
        /\ log = << >>
        /\ (scanCode = 240) => (key_release = 1 /\ extended = entry[2])
        /\ (scanCode \in {224, 225}) => (extended = 1 /\ key_release = entry[1])

\* C20: a prefix code issues no call, sets its flag and leaves the other
\* flag as it was; the flags change only while the interpreter processes a
\* received byte; the third byte of 0xE0, 0xF0, code is entered with both
\* flags set, and 0xE0 0xF0 0x6B opens the two LEFT crosspoints.
C20_PrefixFlags ==
    [][ /\ PrefixProcessed'
        /\ (<< key_release, extended >>' # << key_release, extended >>) =>
              (pc = "ps2" /\ got /\ ScanCodeReceived(scanCode))
        /\ (Returned' /\ Len(popped') = 3 /\ SubSeq(popped', 1, 2) = << 224, 240 >>) =>
              (entry' = << 1, 1 >>)
        /\ (Returned' /\ popped' = << 224, 240, 107 >>) =>
              /\ Len(log') = 2
              /\ ~log'[1].on /\ log'[1].addr = Switch_LEFT_a
              /\ ~log'[2].on /\ log'[2].addr = Switch_LEFT_b
      ]_vars

C20_Witness ==
    /\ Returned
    /\ popped = << 224, 240, 107 >>
    /\ entry = << 1, 1 >>
    /\ LogAddresses = << Switch_LEFT_a, Switch_LEFT_b >>
    /\ ~log[1].on /\ ~log[2].on
    /\ key_release = 0 /\ extended = 0

\* The direction switches of a joystick: << Up, Down, Left, Right, UpLeft
\* extra, UpRight/DownLeft extra, DownRight extra >>
JoyL_Directions ==
    << Switch_JoyL_Up, Switch_JoyL_Down, Switch_JoyL_Left, Switch_JoyL_Right,
       Switch_JoyL_UpLeft_Extra, Switch_JoyL_UpRightDownLeft_Extra,
       Switch_JoyL_DownRight_Extra >>

JoyR_Directions ==
    << Switch_JoyR_Up, Switch_JoyR_Down, Switch_JoyR_Left, Switch_JoyR_Right,
       Switch_JoyR_UpLeft_Extra, Switch_JoyR_UpRightDownLeft_Extra,
       Switch_JoyR_DownRight_Extra >>

Range(f) == {f[i] : i \in DOMAIN f}

\* A change poll of the left / right sampler has returned
LeftChanged == pc = "joyR" /\ ~run /\ log # << >>
RightChanged == pc = "ps2" /\ ~run /\ gpc = "check" /\ log # << >>

\* C16: a poll that reads the stored previous snapshot issues no call,
\* writes nothing to the port and leaves the stored snapshot as it is.
C16_UnchangedPollNoCalls ==
    [][ /\ (pc = "joyL" /\ ~run /\ joy' = joyLeft_prev) =>
              /\ pc' = "joyR" /\ ~run' /\ todo' = << >> /\ log' = << >>
              /\ UNCHANGED << joyLeft_prev, joyRight_prev, PORTA_OUT, matrix >>
        /\ (pc = "joyR" /\ ~run /\ joy' = joyRight_prev) =>
              /\ pc' = "ps2" /\ ~run' /\ todo' = << >> /\ log' = << >>
              /\ UNCHANGED << joyLeft_prev, joyRight_prev, PORTA_OUT, matrix >>
      ]_vars

\* a repeat poll after a change poll to Up Left with button 1
C16_Witness ==
    /\ pc = "joyR" /\ ~run
    /\ joyPolls = 1
    /\ joyLeft_prev = 21 /\ joy = 21
    /\ log = << >>
    /\ matrix # {}

\* The direction switches closed for the direction bits d (Up 1, Down 2,
\* Left 4, Right 8) of a joystick with the direction switches dir
DirectionsClosed(d, dir) ==
    CASE d = 1  -> {dir[1]}
      [] d = 2  -> {dir[2]}
      [] d = 4  -> {dir[3]}
      [] d = 8  -> {dir[4]}
      [] d = 5  -> {dir[1], dir[3], dir[5]}
      [] d = 9  -> {dir[1], dir[4], dir[6]}
      [] d = 10 -> {dir[2], dir[4], dir[7]}
      [] d = 6  -> {dir[2], dir[3], dir[6]}
      [] OTHER  -> {}

\* The calls of the log that address one of the switches dir
DirectionCalls(dir) == SelectSeq(log, LAMBDA c : c.addr \in Range(dir))

\* The calls of a change poll that read snapshot j: 7 calls to the 7
\* direction switches, closing those of the direction and opening the rest,
\* and afterwards exactly those crosspoints are closed
DirectionsDriven(j, dir) ==
    LET calls == DirectionCalls(dir)
        closed == DirectionsClosed(j % 16, dir)
    IN  /\ Len(calls) = 7
        /\ {calls[i].addr : i \in 1..7} = Range(dir)
        /\ \A i \in 1..7 : calls[i].on <=> (calls[i].addr \in closed)
        /\ {a \in Range(dir) : PortAddress(a) \in matrix} = closed

\* C17: a change poll closes the one switch of a cardinal direction, the
\* three switches of a diagonal, and none for every other value of the 4
\* direction bits, and opens all other direction switches of the joystick.
C17_DirectionTable ==
    /\ LeftChanged => DirectionsDriven(joyLeft_prev, JoyL_Directions)
    /\ RightChanged => DirectionsDriven(joyRight_prev, JoyR_Directions)

\* a change poll from Up Left to Down Right, left joystick
C17_Witness ==
    /\ LeftChanged
    /\ joyPolls = 2
    /\ joyLeft_prev = 10
    /\ matrix = {PortAddress(Switch_JoyL_Down), PortAddress(Switch_JoyL_Right),
                 PortAddress(Switch_JoyL_DownRight_Extra)}
    /\ log[3] = [on |-> FALSE, addr |-> Switch_JoyL_Up, phys |-> PortAddress(Switch_JoyL_Up)]

\* C18: among the calls of a poll that address direction switches, no
\* setSwitch(true, ...) comes before a setSwitch(false, ...).
C18_OpenBeforeClose ==
    \A dir \in {JoyL_Directions, JoyR_Directions} :
        LET calls == DirectionCalls(dir)
        IN  \A i, j \in DOMAIN calls : (i < j /\ calls[i].on) => calls[j].on

\* a change poll to Up Right, right joystick: 4 opened, then 3 closed
C18_Witness ==
    /\ RightChanged
    /\ joyRight_prev = 9
    /\ Len(log) = 9
    /\ ~log[6].on /\ log[7].on /\ log[8].on /\ log[9].on

\* C19: in no state are the Up and Down crosspoints of a joystick both
\* closed, nor its Left and Right crosspoints.
C19_NoOpposites ==
    \A dir \in {JoyL_Directions, JoyR_Directions} :
        /\ ~(PortAddress(dir[1]) \in matrix /\ PortAddress(dir[2]) \in matrix)
        /\ ~(PortAddress(dir[3]) \in matrix /\ PortAddress(dir[4]) \in matrix)

\* inside a change poll from Down to Up: Down is open, Up not yet closed
C19_Witness ==
    /\ pc = "joyL" /\ run
    /\ joyLeft_prev = 2 /\ joy = 1
    /\ Len(log) = 3
    /\ log[3].addr = Switch_JoyL_Down /\ ~log[3].on
    /\ sw = 0
    /\ PortAddress(Switch_JoyL_Down) \notin matrix
    /\ PortAddress(Switch_JoyL_Up) \notin matrix

\* C21: a byte is dequeued only by the index advance of get_PS2_ScanCode,
\* one per invocation; while the calls of a key are in progress nothing is
\* dequeued and no joystick poll starts; on return the calls issued are
\* those for the one or two addresses of the key, a before b, each with
\* on = (key_release was 0 on entry).
C21_KeyCallsInOneInvocation ==
    [][ /\ (popped' # popped) =>
              /\ pc = "ps2" /\ gpc = "adv" /\ gpc' = "ret" /\ ~run
              /\ Len(popped') = Len(popped) + 1
        /\ (gpc = "ret" /\ gpc' # "ret") =>
              /\ gpc' = "check"
              /\ (pc' = "ps2") => (run' /\ todo' # << >>)
        /\ (pc = "ps2" /\ run) =>
              /\ popped' = popped /\ gpc' = "check"
              /\ joyLeft_prev' = joyLeft_prev /\ joyRight_prev' = joyRight_prev
              /\ (pc' # "ps2") => (pc' = "joyL" /\ todo = << >> /\ sw = 0)
        /\ (Returned' /\ scanCode' \in KeyCodes) =>
              /\ [i \in DOMAIN log' |-> log'[i].addr] = KeyAddresses(scanCode', entry'[2])
              /\ \A i \in DOMAIN log' : log'[i].on <=> (entry'[1] = 0)
      ]_vars

\* the release of a two-address key
C21_Witness ==
    /\ Returned
    /\ popped = << 240, 27 >>
    /\ entry = << 1, 0 >>
    /\ Len(log) = 2
    /\ log[1] = [on |-> FALSE, addr |-> Switch_S_a, phys |-> PortAddress(Switch_S_a)]
    /\ log[2] = [on |-> FALSE, addr |-> Switch_S_b, phys |-> PortAddress(Switch_S_b)]

\* The calls of the log that address switch a
CallsTo(a) == SelectSeq(log, LAMBDA c : c.addr = a)

\* After a change poll that read snapshot j: one call to each button
\* switch, with the value of its bit, and the crosspoint in that state
ButtonsDriven(j, button1, button2) ==
    /\ Len(CallsTo(button1)) = 1
    /\ CallsTo(button1)[1].on <=> ((j \div 16) % 2 = 1)
    /\ (PortAddress(button1) \in matrix) <=> ((j \div 16) % 2 = 1)
    /\ Len(CallsTo(button2)) = 1
    /\ CallsTo(button2)[1].on <=> ((j \div 32) % 2 = 1)
    /\ (PortAddress(button2) \in matrix) <=> ((j \div 32) % 2 = 1)

\* C22: every change poll drives Button1 and Button2 to their bits of the
\* new snapshot, by one call each, for every value of the direction bits
\* and every previous snapshot.
C22_ButtonsDriven ==
    /\ LeftChanged => ButtonsDriven(joyLeft_prev, Switch_JoyL_Button1, Switch_JoyL_Button2)
    /\ RightChanged => ButtonsDriven(joyRight_prev, Switch_JoyR_Button1, Switch_JoyR_Button2)

\* Button 2 held, the direction changing from Up to the invalid Up + Down
C22_Witness ==
    /\ RightChanged
    /\ joyPolls = 2
    /\ joyRight_prev = 35
    /\ log[1] = [on |-> FALSE, addr |-> Switch_JoyR_Button1,
                 phys |-> PortAddress(Switch_JoyR_Button1)]
    /\ log[2] = [on |-> TRUE, addr |-> Switch_JoyR_Button2,
                 phys |-> PortAddress(Switch_JoyR_Button2)]
    /\ matrix = {PortAddress(Switch_JoyR_Button2)}

C24_FrameByFrame ==
    [][ (edges' # edges) =>
          IF edges' % 11 = 0
          THEN /\ bitCount' = 0 /\ parityCount' = 0
               /\ Len(frame') = 11
               /\ IF FrameWellFormed(frame')
                  THEN /\ PS2_ScanCodeBuffer' =
                             [PS2_ScanCodeBuffer EXCEPT
                                 ![PS2_ScanCodeBuffer_End] = FrameByte(frame')]
                       /\ PS2_ScanCodeBuffer_End' = PS2_ScanCodeBuffer_End + 1
                       /\ PS2_ScanCodeBuffer_Start' = PS2_ScanCodeBuffer_Start
                  ELSE UNCHANGED << PS2_ScanCodeBuffer, PS2_ScanCodeBuffer_Start,
                                    PS2_ScanCodeBuffer_End >>
          ELSE /\ bitCount' = edges' % 11
               /\ UNCHANGED << PS2_ScanCodeBuffer, PS2_ScanCodeBuffer_Start,
                               PS2_ScanCodeBuffer_End >>
      ]_vars

\* 0x00 accepted right after 0xFF, and a frame accepted after a rejected one
C24_Witness ==
    /\ edges = 22
    /\ frame = KeyboardFrame(0)
    /\ accepted = << 255, 0 >>
    /\ bitCount = 0 /\ parityCount = 0 /\ data = 0

\* C25: a step of PS2_Interrupt leaves the port, the crosspoints, the
\* flags, both stored snapshots and the poll context as they are; in the
\* buffer it changes at most the slot at the end index, the end index, and
\* the start index when the buffer was full.
C25_InterruptTouchesOnlyBuffer ==
    [][ (edges' # edges) =>
          /\ UNCHANGED << PORTA_OUT, matrix, key_release, extended, joyLeft_prev,
                          joyRight_prev, scanCode, value, joy, todo, sw, log,
                          pc, gpc, run >>
          /\ \A i \in DOMAIN PS2_ScanCodeBuffer :
                (i # PS2_ScanCodeBuffer_End) =>
                    (PS2_ScanCodeBuffer'[i] = PS2_ScanCodeBuffer[i])
          /\ (PS2_ScanCodeBuffer_End' # PS2_ScanCodeBuffer_End) =>
                (PS2_ScanCodeBuffer_End' =
                    (PS2_ScanCodeBuffer_End + 1) % PS2_ScanCodeBuffer_Size)
          /\ (PS2_ScanCodeBuffer_Start' # PS2_ScanCodeBuffer_Start) =>
                /\ PS2_ScanCodeBuffer_End' # PS2_ScanCodeBuffer_End
                /\ Len(Unread) = PS2_ScanCodeBuffer_Size - 1
      ]_vars

\* a frame in progress while a call has set the select and data lines
C25_Witness ==
    /\ sw = 2
    /\ bitCount = 5
    /\ frames = PS2_ScanCodeBuffer_Size
    /\ PORTA_OUT # 0
    /\ Len(log) = 1

\* C26: the start and end indices stay in 0..Size-1; get_PS2_ScanCode
\* finds the buffer empty exactly when the indices are equal, which is
\* exactly when no byte is unread; the unread count (End - Start) mod Size
\* never exceeds Size - 1; right after a push the indices differ and the
\* slot before the end index holds the byte just pushed.
C26_BufferIndices ==
    /\ [](/\ PS2_ScanCodeBuffer_Start \in 0 .. PS2_ScanCodeBuffer_Size - 1
          /\ PS2_ScanCodeBuffer_End \in 0 .. PS2_ScanCodeBuffer_Size - 1
          /\ (PS2_ScanCodeBuffer_Start = PS2_ScanCodeBuffer_End) <=> (Unread = << >>)
          /\ Len(Unread) = (PS2_ScanCodeBuffer_End - PS2_ScanCodeBuffer_Start)
                               % PS2_ScanCodeBuffer_Size
          /\ Len(Unread) <= PS2_ScanCodeBuffer_Size - 1
          /\ Len(Unread) <= Len(accepted)
          /\ Unread = SubSeq(accepted, Len(accepted) - Len(Unread) + 1, Len(accepted)))
    /\ [][ (accepted' # accepted) =>
             /\ PS2_ScanCodeBuffer_Start' # PS2_ScanCodeBuffer_End'
             /\ Unread' # << >>
             /\ Last(Unread') = Last(accepted')
             /\ PS2_ScanCodeBuffer'[(PS2_ScanCodeBuffer_End' + PS2_ScanCodeBuffer_Size - 1)
                                       % PS2_ScanCodeBuffer_Size] = Last(accepted')
         ]_vars
    /\ [][ (gpc = "check" /\ gpc' # "check") =>
             ((gpc' = "ret") <=> (PS2_ScanCodeBuffer_Start = PS2_ScanCodeBuffer_End))
         ]_vars

\* the end index has wrapped and a push onto a full buffer has just dropped
\* the oldest byte
C26_Witness ==
    /\ Len(accepted) = PS2_ScanCodeBuffer_Size
    /\ Len(Unread) = PS2_ScanCodeBuffer_Size - 1
    /\ PS2_ScanCodeBuffer_End = 0
    /\ PS2_ScanCodeBuffer_Start = 1
    /\ Last(Unread) = Last(accepted)

C28_PreviousSnapshotWrittenLast ==
    /\ [][ (joyLeft_prev' # joyLeft_prev) =>
             /\ pc = "joyL" /\ run /\ ~run' /\ pc' = "joyR"
             /\ todo = << >> /\ sw = 0 /\ Len(log) = 9
             /\ joyLeft_prev' = joy
             /\ joyRight_prev' = joyRight_prev ]_vars
    /\ [][ (joyRight_prev' # joyRight_prev) =>
             /\ pc = "joyR" /\ run /\ ~run' /\ pc' = "ps2"
             /\ todo = << >> /\ sw = 0 /\ Len(log) = 9
             /\ joyRight_prev' = joy
             /\ joyLeft_prev' = joyLeft_prev ]_vars
    /\ [][ (pc \in {"joyL", "joyR"} /\ ~run /\ run') =>
             /\ joy' # (IF pc = "joyL" THEN joyLeft_prev ELSE joyRight_prev)
             /\ Len(todo') = 9 /\ log' = << >> ]_vars
    /\ [][ (pc \in {"joyL", "joyR"} /\ run) => (joy' = joy) ]_vars
    /\ [][ (pc' \in {"joyL", "joyR"} /\ pc' # pc /\ ~run) =>
             UNCHANGED << joyLeft_prev, joyRight_prev >> ]_vars

\* a second change poll of the left joystick has stored its snapshot while
\* the right joystick's stored snapshot stayed as it was
C28_Witness ==
    /\ pc = "joyR" /\ ~run
    /\ joyPolls = MaxJoyMoves
    /\ Len(log) = 9
    /\ joyLeft_prev = joy /\ joyLeft_prev = 37
    /\ joyRight_prev = 0

\* The bytes whose processing has returned
Processed ==
    IF pc = "ps2" /\ got /\ (gpc = "ret" \/ run) THEN SubSeq(popped, 1, Len(popped) - 1)
    ELSE popped

\* The keys of s pressed and not released since: a key code is a release
\* when the byte before it is 0xF0
KeysHeld(s) ==
    { k \in KeyCodes :
        \E i \in DOMAIN s :
            /\ s[i] = k
            /\ ~(i > 1 /\ s[i - 1] = 240)
            /\ \A j \in (i + 1) .. Len(s) : ~(s[j] = k /\ s[j - 1] = 240) }

\* The crosspoints of key code k
KeyCrosspoints(k) == { PortAddress(a) : a \in Range(KeyAddresses(k, 0)) }

\* The key code the interpreter is processing, if any
InProcess ==
    IF pc = "ps2" /\ got /\ (gpc = "ret" \/ run) THEN {Last(popped)} ELSE {}

OppositesClosed(m) ==
    \/ {PortAddress(Switch_JoyL_Up), PortAddress(Switch_JoyL_Down)} \subseteq m
    \/ {PortAddress(Switch_JoyL_Left), PortAddress(Switch_JoyL_Right)} \subseteq m
    \/ {PortAddress(Switch_JoyR_Up), PortAddress(Switch_JoyR_Down)} \subseteq m
    \/ {PortAddress(Switch_JoyR_Left), PortAddress(Switch_JoyR_Right)} \subseteq m

\* C30 as stated: in no state of the whole system are opposite direction
\* crosspoints of a controller both closed.
C30_Original == ~OppositesClosed(matrix)

\* C30: a state with opposite direction crosspoints of a controller both
\* closed is entered only by a close call of the interpreter for a key
\* press, never by a joystick sampler, a release or the interrupt; and
\* when a change poll of a joystick has returned, no opposite crosspoints
\* of that joystick's controller are both closed.
C30_OppositesOnlyByKeyPress ==
    /\ [][ (OppositesClosed(matrix') /\ ~OppositesClosed(matrix)) =>
             /\ pc = "ps2" /\ run /\ key_release = 0
             /\ todo # << >> /\ sw = 2 /\ Head(todo).on
             /\ scanCode \in {22, 41}
             /\ PortAddress(Head(todo).addr) \in matrix' \ matrix ]_vars
    /\ [](LeftChanged =>
             /\ ~({PortAddress(Switch_JoyL_Up), PortAddress(Switch_JoyL_Down)}
                     \subseteq matrix)
             /\ ~({PortAddress(Switch_JoyL_Left), PortAddress(Switch_JoyL_Right)}
                     \subseteq matrix))
    /\ [](RightChanged =>
             /\ ~({PortAddress(Switch_JoyR_Up), PortAddress(Switch_JoyR_Down)}
                     \subseteq matrix)
             /\ ~({PortAddress(Switch_JoyR_Left), PortAddress(Switch_JoyR_Right)}
                     \subseteq matrix))

\* the left joystick is held Down+Left and the press of '1' has closed Up
\* and Right
C30_Witness ==
    /\ Returned
    /\ joyLeft_prev = 6
    /\ popped = << 22 >>
    /\ {PortAddress(Switch_JoyL_Up), PortAddress(Switch_JoyL_Down),
        PortAddress(Switch_JoyL_Left), PortAddress(Switch_JoyL_Right)} \subseteq matrix

\* The 7 direction switches and the 2 button switches of a joystick
JoySwitches(dir, button1, button2) == Range(dir) \cup {button1, button2}

\* The switches snapshot j requires closed: those of its direction bits and
\* a button switch for each button bit
JoyRequired(j, dir, button1, button2) ==
    DirectionsClosed(j % 16, dir)
      \cup (IF (j \div 16) % 2 = 1 THEN {button1} ELSE {})
      \cup (IF (j \div 32) % 2 = 1 THEN {button2} ELSE {})

\* The switches of s whose crosspoint is closed
ClosedAmong(s) == {a \in s : PortAddress(a) \in matrix}

\* C31: with a silent keyboard, after every poll of a joystick, changed or
\* not, from the first poll on, the closed crosspoints among the 9 of that
\* joystick are exactly those its stored snapshot requires; the calls of a
\* change poll address each of the 9 switches exactly once.
C31_MatrixFollowsSnapshot ==
    /\ (pc = "joyR" /\ ~run) =>
          ClosedAmong(JoySwitches(JoyL_Directions, Switch_JoyL_Button1, Switch_JoyL_Button2))
            = JoyRequired(joyLeft_prev, JoyL_Directions, Switch_JoyL_Button1,
                          Switch_JoyL_Button2)
    /\ (pc = "ps2" /\ ~run) =>
          ClosedAmong(JoySwitches(JoyR_Directions, Switch_JoyR_Button1, Switch_JoyR_Button2))
            = JoyRequired(joyRight_prev, JoyR_Directions, Switch_JoyR_Button1,
                          Switch_JoyR_Button2)
    /\ LeftChanged =>
          /\ Len(log) = 9
          /\ {log[i].addr : i \in DOMAIN log}
               = JoySwitches(JoyL_Directions, Switch_JoyL_Button1, Switch_JoyL_Button2)
          /\ Cardinality({log[i].phys : i \in DOMAIN log}) = 9
    /\ RightChanged =>
          /\ Len(log) = 9
          /\ {log[i].addr : i \in DOMAIN log}
               = JoySwitches(JoyR_Directions, Switch_JoyR_Button1, Switch_JoyR_Button2)
          /\ Cardinality({log[i].phys : i \in DOMAIN log}) = 9

\* the second change poll of the right joystick, to Down Right with button
\* 1, has returned
C31_Witness ==
    /\ RightChanged
    /\ joyPolls = 2
    /\ joyRight_prev = 26
    /\ matrix = {PortAddress(Switch_JoyR_Down), PortAddress(Switch_JoyR_Right),
                 PortAddress(Switch_JoyR_DownRight_Extra),
                 PortAddress(Switch_JoyR_Button1)}
    /\ Cardinality({log[i].addr : i \in DOMAIN log}) = 9

\* The addresses the calls of a joystick sampler can carry, over all
\* snapshots
LeftIssued ==
    UNION { {process_Joystick_Left_Calls(j)[i].addr :
                i \in DOMAIN process_Joystick_Left_Calls(j)} : j \in 0 .. 63 }

RightIssued ==
    UNION { {process_Joystick_Right_Calls(j)[i].addr :
                i \in DOMAIN process_Joystick_Right_Calls(j)} : j \in 0 .. 63 }

\* The X field (bits 0-3) and the Y field (bits 4-5) of an address
AddressX(a) == a % 16
AddressY(a) == (a \div 16) % 4

\* The 9 switches of each joystick
JoyL_Switches == JoySwitches(JoyL_Directions, Switch_JoyL_Button1, Switch_JoyL_Button2)
JoyR_Switches == JoySwitches(JoyR_Directions, Switch_JoyR_Button1, Switch_JoyR_Button2)

\* C32: the addresses of the left sampler and those of the right sampler
\* are disjoint, as are the port values written for them; the left ones
\* have X in 0..7 and Y in 0..1, the right ones X in 8..15 and Y in 2..3;
\* (evaluated whenever a change poll is entered); the calls of a poll carry
\* only that sampler's addresses, and no step of a poll of one joystick
\* changes a crosspoint of the other.
C32_SamplersDisjoint ==
    /\ []((pc \in {"joyL", "joyR"} /\ run /\ log = << >>) =>
          /\ LeftIssued = JoyL_Switches
          /\ RightIssued = JoyR_Switches
          /\ LeftIssued \cap RightIssued = {}
          /\ {MT8816_Address(a) : a \in LeftIssued}
                \cap {MT8816_Address(a) : a \in RightIssued} = {}
          /\ \A a \in LeftIssued :
                a < 64 /\ AddressX(a) \in 0 .. 7 /\ AddressY(a) \in 0 .. 1
          /\ \A a \in RightIssued :
                a < 64 /\ AddressX(a) \in 8 .. 15 /\ AddressY(a) \in 2 .. 3)
    /\ []((pc = "joyL" /\ run) => \A i \in DOMAIN log : log[i].addr \in JoyL_Switches)
    /\ []((pc = "joyR" /\ run) => \A i \in DOMAIN log : log[i].addr \in JoyR_Switches)
    /\ [][ /\ (pc = "joyL") =>
                 (ClosedAmong(JoyR_Switches)' = ClosedAmong(JoyR_Switches))
           /\ (pc = "joyR") =>
                 (ClosedAmong(JoyL_Switches)' = ClosedAmong(JoyL_Switches)) ]_vars

\* a change poll of the left joystick has returned while the right one is
\* held Down and SPACE is pressed: Up, Right and Down of the right
\* controller are still closed
C32_Witness ==
    /\ LeftChanged
    /\ joyLeft_prev = 6 /\ joyRight_prev = 2
    /\ popped = << 41 >>
    /\ ClosedAmong(JoyR_Switches) = {Switch_JoyR_Up, Switch_JoyR_Right, Switch_JoyR_Down}
    /\ ClosedAmong(JoyL_Switches) = {Switch_JoyL_Down, Switch_JoyL_Left,
                                     Switch_JoyL_UpRightDownLeft_Extra}

\* C33: between interrupts bitCount is in 0..10 and equals the number of
\* edges so far modulo 11; parityCount is the number of 1 levels among the
\* data and parity bits of the frame in progress, at most 9; a frame is
\* counted at every 11th edge, also when its start bit was 1; a byte is
\* accepted only at an 11th edge, and never from a frame whose start bit
\* was 1.
C33_ElevenEdgesPerFrame ==
    /\ [](/\ bitCount \in 0 .. 10
          /\ bitCount = edges % 11
          /\ frames = edges \div 11
          /\ parityCount <= 9
          /\ parityCount = (IF bitCount >= 2 THEN Ones(SubSeq(frame, 2, bitCount)) ELSE 0)
          /\ (bitCount >= 1) =>
                /\ Len(frame) = bitCount
                /\ startBit = frame[1] * PS2_Data_bm
          /\ Len(accepted) <= frames)
    /\ [][ (accepted' # accepted) =>
             /\ edges' = edges + 1
             /\ edges' % 11 = 0
             /\ frame'[1] = 0 ]_vars
    /\ [][ (edges' # edges /\ bitCount' = 0) =>
             /\ edges' % 11 = 0
             /\ (frame'[1] = 1) => (accepted' = accepted) ]_vars

\* the 10th edge of a second frame of nine 1 levels after a start bit of 1
C33_Witness ==
    /\ edges = 21
    /\ bitCount = 10
    /\ parityCount = 9
    /\ startBit # 0
    /\ frame = << 1, 1, 1, 1, 1, 1, 1, 1, 1, 1 >>
    /\ frames = 1

\* C34 as stated: the value get_PS2_ScanCode returns is taken for "no byte"
\* exactly when the buffer was empty at the call; a dequeued byte is taken
\* for a received code.
C34_Original ==
    (pc = "ps2" /\ gpc = "ret") => (ScanCodeReceived(scanCode) <=> got)

\* C34 amended: get_PS2_ScanCode dequeues a byte exactly when the buffer is
\* not empty at the call and returns it; the interpreter takes the returned
\* value for "no byte" when the buffer was empty and also when the dequeued
\* byte is 0x00, and then changes nothing; every other dequeued byte enters
\* the switch statement: a prefix sets its flag, a byte without a case
\* clears both flags, a key code with an address starts its calls.
C34_ZeroByteIsNoByte ==
    /\ [][ (pc = "ps2" /\ gpc = "check" /\ gpc' # "check") =>
             (got' <=> (PS2_ScanCodeBuffer_Start # PS2_ScanCodeBuffer_End)) ]_vars
    /\ []((pc = "ps2" /\ gpc = "ret") =>
             /\ got => (scanCode = Last(popped))
             /\ ~got => (scanCode = 0)
             /\ ScanCodeReceived(scanCode) <=> (got /\ Last(popped) # 0))
    /\ [][ (pc = "ps2" /\ gpc = "ret" /\ gpc' = "check") =>
             IF ~got \/ scanCode = 0
             THEN /\ UNCHANGED << key_release, extended, todo, PORTA_OUT, matrix >>
                  /\ pc' = "joyL" /\ ~run'
             ELSE /\ (scanCode = 240) => (key_release' = 1)
                  /\ (scanCode \in {224, 225}) => (extended' = 1)
                  /\ (scanCode \notin ScanCodeCases) =>
                        (key_release' = 0 /\ extended' = 0)
                  /\ (scanCode \in KeyCodes /\ KeyAddresses(scanCode, extended) # << >>) =>
                        /\ run'
                        /\ Len(todo') = Len(KeyAddresses(scanCode, extended))
         ]_vars

\* 0x00 was dequeued after 0xE0 and the interpreter has returned with
\* extended still set
C34_Witness ==
    /\ Returned
    /\ popped = << 224, 0 >>
    /\ scanCode = 0
    /\ extended = 1
    /\ log = << >>
    /\ PS2_ScanCodeBuffer_Start = 2 /\ PS2_ScanCodeBuffer_End = 2

====
